---------------------------- MODULE Spec2Model ----------------------------
(***************************************************************************)
(* GoXLR host driver: the USB attach sequence and the command framer.      *)
(*                                                                         *)
(* Two implementations live in the repository and both are modelled:       *)
(*   impl = "usb"    GoXLRUSB  (src/usb/src/device/usb.rs)                 *)
(*   impl = "legacy" GoXLR<T>  (src/usb/src/goxlr.rs)                      *)
(* The build is part of the state because debug_assert! aborts in a debug  *)
(* build and is compiled out in a release build.                           *)
(***************************************************************************)
EXTENDS Integers, Sequences, FiniteSets, TLC

VARIABLES
    impl,           \* which implementation owns the handle
    build,          \* "debug" | "release"
    apc,            \* position inside from_device
    device_is_claimed, \* result of the first claim_interface(0)
    claimed,        \* whether the handle currently holds interface 0
    autoDetach,     \* set_auto_detach_kernel_driver(true) has been applied
    usblog,         \* USB operations from_device has performed, in order
    attachResult,   \* "none" | "Ok" | the error from_device returned
    command_count,  \* the handle's u16 command counter
    stack,          \* active perform_request / request_data invocations
    pipe,           \* device response pipe: frames not yet read by the host
    lastRet,        \* what the most recently finished invocation returned
    txlog,          \* frames handed to write_control(2, ..) by the current verb
    prevTx,         \* command of the last frame handed to write_control(2, ..)
    calls,          \* verbs issued on this handle so far
    settings,       \* ProfileSettings: the monitor tree and the mixer table
    scribbles,      \* Profile.scribbles: the four scribble blobs
    preSave,        \* settings as they were when the last write_to was entered
    document,       \* what the last write_to emitted into its sink
    writeResult,    \* "none" | "Ok" | "Err": what the last write_to returned
    failedAt,       \* the writer whose error the last write_to returned
    archive,        \* the zip archive Profile::save has built
    loaded,         \* the Profile that Profile::load made of the saved archive
    saves,          \* write_to calls made so far
    fkind,          \* which writer saves: "profile" (Profile::save) | "settings"
    fpc,            \* position inside Profile::save / Settings::write
    temp,           \* contents of the temporary file
    tempSynced,     \* sync_all has returned Ok for the temporary file
    dest,           \* contents of the destination file
    copied,         \* blocks fs::copy has written to the destination so far
    fileResult,     \* "none" | "Ok" | "Err" | "Interrupted"
    fileFailedAt,   \* the step that failed or was interrupted
    observed,       \* what a reader of the destination file saw last
    preset,         \* one ReverbEncoder preset
    presetBefore,   \* the preset before the last setter call
    setterCall,     \* the last setter call: its name and its argument
    setterResult,   \* "none" | "Ok" | the error message of the last call
    sets,           \* setter calls made so far
    attributes,     \* the attributes of the preset element parsed, in order
    xmlOp,          \* "none" | "load" | "load_preset" | "write_to": the last call
    xmlDoc,         \* the events of the document the last load or import read
    xmlResult,      \* "none" | "Ok" | "Err" | "Abort": how the last call ended
    tree,           \* the ProfileSettings in memory (NoTree when there is none)
    treeBefore,     \* the ProfileSettings before the last call
    emitted,        \* the elements the last write_to handed to its writer, in order
    linked_list,    \* LinkingTree.linked_list: per input, whether it is linked
    linked_ratio,   \* LinkingTree.linked_ratio: per input, the stored f64
    linkCall,       \* the last call on the linking tree and its arguments
    linkResult,     \* "none" | "Ok" | "Invalid Ratio"
    response,       \* the bytes request_data returned to get_firmware_version
    versions,       \* what get_firmware_version returned (NoVersions before)
    ports,          \* the USB devices attached, by place
    devicesOk,      \* whether rusb::devices() returns Ok
    found,          \* whether find_devices has returned, and the vector it returned
    slotTag,        \* the numbered element load has come to: name and build
    slotOutcome,    \* what load did with it (NoOutcome before)
    facadeCall,     \* the decoding verb called and the body request_data gave it
    facadeResult,   \* how the verb ended and what it returned (NoDecode before)
    devices,        \* Settings.devices: per serial, the DeviceSettings or NoEntry
    devicesBefore,  \* Settings.devices before the last setter call
    settingsCall,   \* the last setter call: the field it names and the serial
    settingsCalls   \* setter calls made so far

vars == <<impl, build, apc, device_is_claimed, claimed, autoDetach, usblog,
          attachResult, command_count, stack, pipe, lastRet, txlog, prevTx,
          calls, settings, scribbles, preSave, document, writeResult,
          failedAt, archive, loaded, saves, fkind, fpc, temp, tempSynced,
          dest, copied, fileResult, fileFailedAt, observed, preset,
          presetBefore, setterCall, setterResult, sets, attributes, xmlOp,
          xmlDoc, xmlResult, tree, treeBefore, emitted, linked_list,
          linked_ratio, linkCall, linkResult, response, versions,
          ports, devicesOk, found,
          slotTag, slotOutcome,
          facadeCall, facadeResult,
          devices, devicesBefore, settingsCall, settingsCalls>>

profileVars == <<settings, scribbles, preSave, document, writeResult, failedAt,
                 archive, loaded, saves>>
deviceVars == <<impl, build, apc, device_is_claimed, claimed, autoDetach, usblog,
                attachResult, command_count, stack, pipe, lastRet, txlog, prevTx,
                calls>>
fileVars == <<fkind, fpc, temp, tempSynced, dest, copied, fileResult,
              fileFailedAt, observed>>
reverbVars == <<preset, presetBefore, setterCall, setterResult, sets, attributes>>

xmlVars == <<xmlOp, xmlDoc, xmlResult, tree, treeBefore, emitted>>
linkVars == <<linked_list, linked_ratio, linkCall, linkResult>>
versionVars == <<response, versions>>

\* What an action of one part leaves alone: the other parts
enumerationVars == <<ports, devicesOk, found>>
slotVars == <<slotTag, slotOutcome>>
facadeVars == <<facadeCall, facadeResult>>
settingsVars == <<devices, devicesBefore, settingsCall, settingsCalls>>
otherThanDevice == <<profileVars, fileVars, reverbVars, xmlVars, linkVars,
    versionVars,
    enumerationVars,
    slotVars,
    facadeVars,
    settingsVars>>
otherThanProfile == <<deviceVars, fileVars, reverbVars, xmlVars, linkVars,
    versionVars,
    enumerationVars,
    slotVars,
    facadeVars,
    settingsVars>>
otherThanFiles == <<deviceVars, profileVars, reverbVars, xmlVars, linkVars,
    versionVars,
    enumerationVars,
    slotVars,
    facadeVars,
    settingsVars>>
otherThanReverb == <<deviceVars, profileVars, fileVars, xmlVars, linkVars,
    versionVars,
    enumerationVars,
    slotVars,
    facadeVars,
    settingsVars>>
otherThanXml == <<deviceVars, profileVars, fileVars, reverbVars, linkVars,
    versionVars,
    enumerationVars,
    slotVars,
    facadeVars,
    settingsVars>>
otherThanLinks == <<deviceVars, profileVars, fileVars, reverbVars, xmlVars,
    versionVars,
    enumerationVars,
    slotVars,
    facadeVars,
    settingsVars>>
otherThanVersions == <<deviceVars, profileVars, fileVars, reverbVars, xmlVars,
    linkVars,
    enumerationVars,
    slotVars,
    facadeVars,
    settingsVars>>
otherThanEnumeration == <<profileVars, fileVars, reverbVars, xmlVars,
    linkVars, versionVars, deviceVars,
    slotVars,
    facadeVars,
    settingsVars>>
otherThanSlots == <<profileVars, fileVars, reverbVars, xmlVars,
    linkVars, versionVars, enumerationVars, deviceVars,
    facadeVars,
    settingsVars>>
otherThanFacade == <<profileVars, fileVars, reverbVars, xmlVars,
    linkVars, versionVars, enumerationVars, slotVars, deviceVars,
    settingsVars>>
otherThanSettings == <<profileVars, fileVars, reverbVars, xmlVars,
    linkVars, versionVars, enumerationVars, slotVars, facadeVars, deviceVars>>

attachVars == <<apc, device_is_claimed, claimed, autoDetach, usblog, attachResult>>
framerVars == <<command_count, stack, pipe, lastRet, txlog, prevTx, calls>>

---------------------------------------------------------------------------
(* Program constants *)

\* u16::MAX
U16Max == 65535

\* for i in 0..20
PollLimit == 20

\* response_header.len() < 16 / vec![0; 16]
HeaderLen == 16

(* Bounds of the model *)

\* verbs issued on one handle
MaxCalls == 2

\* response frames the device holds back at once
MaxPipe == 2

---------------------------------------------------------------------------
(* Outcomes of one USB transfer (rusb::Error); "NoDevice" stands for every *)
(* error other than Pipe.                                                  *)
UsbErrors == {"Pipe", "NoDevice"}
UsbOutcomes == {"Ok"} \cup UsbErrors

---------------------------------------------------------------------------
(* from_device *)

AttachFail(err) ==
    /\ apc' = "failed"
    /\ attachResult' = err

\* find_device / open / read_languages / languages.get(0) /
\* set_active_configuration(1) / claim_interface(0).is_ok() / Self { .. }
AttachOpen ==
    /\ apc = "open"
    /\ \E o \in {"Ok", "NotFound", "UsbError", "NotGoXLR"} :
         \* only GoXLRUSB looks the device up; the legacy one is given a handle
         /\ o = "NotFound" => impl = "usb"
         /\ IF o = "Ok"
            THEN /\ \E c \in BOOLEAN :
                      /\ device_is_claimed' = c
                      /\ claimed' = c
                 /\ apc' = "probe"
                 /\ usblog' = usblog \o <<"set_active_configuration", "claim_interface">>
                 /\ attachResult' = attachResult
            ELSE /\ AttachFail(o)
                 /\ UNCHANGED <<device_is_claimed, claimed, usblog>>
    /\ UNCHANGED <<impl, build, autoDetach>>
    /\ UNCHANGED framerVars
    /\ UNCHANGED otherThanDevice

\* let result = goxlr.write_control(1, 0, 0, &[]); if result == Err(Pipe) { .. }
\* Any result other than Err(Pipe), an error included, goes on to the flush read.
AttachProbe ==
    /\ apc = "probe"
    /\ \E o \in UsbOutcomes :
         apc' = IF o = "Pipe" THEN "release1" ELSE "flush"
    /\ usblog' = Append(usblog, "probe")
    /\ UNCHANGED <<impl, build, device_is_claimed, claimed, autoDetach, attachResult>>
    /\ UNCHANGED framerVars
    /\ UNCHANGED otherThanDevice

\* usb:    if device_is_claimed { goxlr.handle.release_interface(0)?; }
\* legacy: goxlr.handle.release_interface(0)?;
\* libusb refuses to release an interface the handle does not hold.
SkipsFirstRelease == impl = "usb" /\ ~device_is_claimed

AttachRelease1 ==
    /\ apc = "release1"
    /\ IF SkipsFirstRelease
       THEN /\ apc' = "autodetach"
            /\ UNCHANGED <<claimed, usblog, attachResult>>
       ELSE \E o \in {"Ok", "NoDevice"} :
              /\ usblog' = Append(usblog, "release_interface")
              /\ IF o = "Ok" /\ claimed
                 THEN /\ claimed' = FALSE
                      /\ apc' = "autodetach"
                      /\ attachResult' = attachResult
                 ELSE /\ AttachFail("UsbError")
                      /\ claimed' = claimed
    /\ UNCHANGED <<impl, build, device_is_claimed, autoDetach>>
    /\ UNCHANGED framerVars
    /\ UNCHANGED otherThanDevice

\* goxlr.handle.set_auto_detach_kernel_driver(true)?;
AttachAutoDetach ==
    /\ apc = "autodetach"
    /\ usblog' = Append(usblog, "set_auto_detach_kernel_driver")
    /\ \E o \in {"Ok", "NoDevice"} :
         IF o = "Ok"
         THEN /\ autoDetach' = TRUE
              /\ apc' = "claim2"
              /\ attachResult' = attachResult
         ELSE /\ AttachFail("UsbError")
              /\ autoDetach' = autoDetach
    /\ UNCHANGED <<impl, build, device_is_claimed, claimed>>
    /\ UNCHANGED framerVars
    /\ UNCHANGED otherThanDevice

\* if goxlr.handle.claim_interface(0).is_err() { return Err(..) }
AttachClaim2 ==
    /\ apc = "claim2"
    /\ usblog' = Append(usblog, "claim_interface")
    /\ \E o \in {"Ok", "NoDevice"} :
         IF o = "Ok"
         THEN /\ claimed' = TRUE
              /\ apc' = "activate"
              /\ attachResult' = attachResult
         ELSE /\ AttachFail("DeviceNotClaimed")
              /\ claimed' = claimed
    /\ UNCHANGED <<impl, build, device_is_claimed, autoDetach>>
    /\ UNCHANGED framerVars
    /\ UNCHANGED otherThanDevice

\* A step of the recovery that is a single fallible call followed by `?`.
AttachStep(at, op, next) ==
    /\ apc = at
    /\ usblog' = Append(usblog, op)
    /\ \E o \in {"Ok", "NoDevice"} :
         IF o = "Ok"
         THEN /\ apc' = next
              /\ attachResult' = attachResult
         ELSE AttachFail("UsbError")
    /\ UNCHANGED <<impl, build, device_is_claimed, autoDetach>>
    /\ UNCHANGED framerVars
    /\ UNCHANGED otherThanDevice

\* goxlr.read_control(0, 0, 0, 24)?;
AttachActivate ==
    /\ AttachStep("activate", "read_control_0_24", "audio")
    /\ claimed' = claimed

\* goxlr.write_class_control(1, 0x0100, 0x2900, &[0x80, 0xbb, 0x00, 0x00])?;
AttachAudio ==
    /\ AttachStep("audio", "write_class_control", "release2")
    /\ claimed' = claimed

\* What follows the second release_interface(0)?:
\*   usb:    goxlr.handle.reset()?
\*   legacy: return Err(ConnectError::DeviceNeedsReboot)
AfterRelease2 == IF impl = "usb" THEN "reset" ELSE "needsReboot"

\* goxlr.handle.release_interface(0)?;
AttachRelease2 ==
    /\ apc = "release2"
    /\ usblog' = Append(usblog, "release_interface")
    /\ \E o \in {"Ok", "NoDevice"} :
         IF o = "Ok" /\ claimed
         THEN /\ claimed' = FALSE
              /\ IF AfterRelease2 = "needsReboot"
                 THEN AttachFail("DeviceNeedsReboot")
                 ELSE /\ apc' = AfterRelease2
                      /\ attachResult' = attachResult
         ELSE /\ AttachFail("UsbError")
              /\ claimed' = claimed
    /\ UNCHANGED <<impl, build, device_is_claimed, autoDetach>>
    /\ UNCHANGED framerVars
    /\ UNCHANGED otherThanDevice

\* (mutant) the pause is taken before the second probe
RecoveryTailSleepFirst == <<"reset", "sleep", "reprobe", "flush">>

\* The order of the last three recovery steps of GoXLRUSB::from_device:
\*   goxlr.handle.reset()?; goxlr.write_control(1, 0, 0, &[])?; sleep(1 s)
RecoveryTail == <<"reset", "reprobe", "sleep", "flush">>

TailNext(at) ==
    CHOOSE n \in {RecoveryTail[i] : i \in 1..Len(RecoveryTail)} :
        \E i \in 1..(Len(RecoveryTail) - 1) :
            RecoveryTail[i] = at /\ RecoveryTail[i + 1] = n

\* goxlr.handle.reset()?;
AttachReset ==
    /\ AttachStep("reset", "reset", TailNext("reset"))
    /\ claimed' = claimed

\* goxlr.write_control(1, 0, 0, &[])?;   (any error, Pipe included, is returned as is)
AttachReprobe ==
    /\ apc = "reprobe"
    /\ usblog' = Append(usblog, "probe")
    /\ \E o \in UsbOutcomes :
         IF o = "Ok"
         THEN /\ apc' = TailNext("reprobe")
              /\ attachResult' = attachResult
         ELSE AttachFail(IF o = "Pipe" THEN "UsbPipe" ELSE "UsbError")
    /\ UNCHANGED <<impl, build, device_is_claimed, claimed, autoDetach>>
    /\ UNCHANGED framerVars
    /\ UNCHANGED otherThanDevice

\* sleep(Duration::from_secs(1));
AttachSleep ==
    /\ apc = "sleep"
    /\ usblog' = Append(usblog, "sleep_1s")
    /\ apc' = TailNext("sleep")
    /\ UNCHANGED <<impl, build, device_is_claimed, claimed, autoDetach, attachResult>>
    /\ UNCHANGED framerVars
    /\ UNCHANGED otherThanDevice

\* goxlr.read_control(3, 0, 0, 1040)?;  Ok(goxlr)
AttachFlush ==
    /\ apc = "flush"
    /\ usblog' = Append(usblog, "read_control_3_1040")
    /\ \E o \in {"Ok", "NoDevice"} :
         IF o = "Ok"
         THEN /\ apc' = "attached"
              /\ attachResult' = "Ok"
         ELSE AttachFail("UsbError")
    /\ UNCHANGED <<impl, build, device_is_claimed, claimed, autoDetach>>
    /\ UNCHANGED framerVars
    /\ UNCHANGED otherThanDevice

---------------------------------------------------------------------------
(* Command catalogue and frame encoding *)

\* Command::command_id(): (category << 12) | subcommand_or_index.
\* ResetCommandIndex is category 0; the other two categories are the
\* catalogue's values for SetChannelVolume and SetFader.
Category(name) ==
    CASE name = "ResetCommandIndex" -> 0
      [] name = "SetChannelVolume"  -> 2054
      [] name = "SetFader"          -> 2053

CommandId(cmd) == Category(cmd.name) * 4096 + cmd.sub

ResetCommand == [name |-> "ResetCommandIndex", sub |-> 0, body |-> <<>>]

\* Inputs of the verbs
Channels == {0, 1}
Faders == {3}
Volumes == {255}

\* set_volume: Command::SetChannelVolume(channel), &[volume]
SetVolumeCommand(channel, volume) ==
    [name |-> "SetChannelVolume", sub |-> channel, body |-> <<volume>>]

\* set_fader: Command::SetFader(fader), &[channel as u8, 0x00, 0x00, 0x00]
SetFaderCommand(fader, channel) ==
    [name |-> "SetFader", sub |-> fader, body |-> <<channel, 0, 0, 0>>]

\* (mutant) most significant byte first
BigEndian(n, width) ==
    [k \in 1..width |-> (n \div (256 ^ (width - k))) % 256]

\* LittleEndian::write_u16 / write_u32: n as `width` bytes, least significant first
LittleEndian(n, width) ==
    [k \in 1..width |-> (n \div (256 ^ (k - 1))) % 256]

\* let mut full_request = vec![0; 16]; write_u32(0..4, id);
\* write_u16(4..6, body.len() as u16); write_u16(6..8, index); extend(body)
FullRequest(cmd, command_index) ==
    LittleEndian(CommandId(cmd), 4)
    \o LittleEndian(Len(cmd.body) % (U16Max + 1), 2)
    \o LittleEndian(command_index, 2)
    \o [k \in 1..(HeaderLen - 8) |-> 0]
    \o cmd.body

---------------------------------------------------------------------------
(* The command framer: perform_request (usb) and request_data (legacy) *)

\* (mutant) the check before the increment is missing
ResetsBeforeIncrementDropped(count) == FALSE

\* if self.command_count == u16::MAX   (usb.rs)
\* if self.command_count <  u16::MAX   (goxlr.rs)
ResetsBeforeIncrement(count) ==
    IF impl = "usb" THEN count = U16Max ELSE count < U16Max

\* (mutant) the counter starts one past zero
ConstructedCountOne == 0 + 1

\* command_count: 0 in the struct literal of from_device
ConstructedCount == 0

\* (mutant) ResetCommandIndex leaves the counter alone
CountAfterResetKept(count) == count

\* self.command_count = 0 for ResetCommandIndex
CountAfterReset(count) == 0

\* self.command_count += 1 on a u16: a debug build aborts on overflow, a
\* release build wraps.
Overflows(count) == count + 1 > U16Max
Incremented(count) == (count + 1) % (U16Max + 1)

\* GoXLRCommands::request_data(command, body) = perform_request(command, body, false)
RequestDataRetry == FALSE

\* (mutant) the resync invocations are not marked as retries
ResyncRetryUnmarked == FALSE

\* The retry flag perform_request passes to the two invocations of a resync
ResyncRetry == TRUE

Frame(cmd, retry, role) ==
    [cmd |-> cmd, retry |-> retry, role |-> role, pc |-> "enter",
     entry |-> 0, idx |-> 0, i |-> 0, mism |-> FALSE, resync |-> <<>>]

\* Which invocation a resync's two invocations belong to (bookkeeping only).
ChildRole(f, what) ==
    IF f.role = "verb"
    THEN (IF what = "Resync" THEN "verbResync" ELSE "verbRetry")
    ELSE (IF what = "Resync" THEN "nestedResync" ELSE "nestedRetry")

Top == stack[Len(stack)]
Pop == SubSeq(stack, 1, Len(stack) - 1)
SetTop(f) == [stack EXCEPT ![Len(stack)] = f]
Push(f, child) == Append(SetTop(f), child)

NoResp == [idx |-> 0, cur |-> FALSE, short |-> FALSE]

\* The last frame handed to the device by the verb in progress, as a return sees it
NoTx == [role |-> "none", idx |-> 0]
LastTx(log) ==
    IF log = <<>> THEN NoTx
    ELSE [role |-> log[Len(log)].role, idx |-> log[Len(log)].idx]

Ret(f, kind, err, read, resp) ==
    [kind |-> kind, err |-> err, read |-> read, resp |-> resp,
     cmd |-> f.cmd.name, retry |-> f.retry, role |-> f.role, idx |-> f.idx,
     mism |-> f.mism, resync |-> f.resync, via |-> "self", lastTx |-> NoTx]

NoRet ==
    [kind |-> "none", err |-> "none", read |-> FALSE, resp |-> NoResp,
     cmd |-> "none", retry |-> FALSE, role |-> "none", idx |-> 0,
     mism |-> FALSE, resync |-> <<>>, via |-> "self", lastTx |-> NoTx]

\* The invocation on top of the stack returns r to its caller.
Return(r) ==
    /\ lastRet' = [r EXCEPT !.lastTx = LastTx(txlog)]
    /\ stack' = Pop

\* A panic unwinds every invocation and the handle is gone with the thread.
Abort(f, why, resp) ==
    /\ lastRet' = [Ret(f, "Panic", why, FALSE, resp) EXCEPT !.lastTx = LastTx(txlog)]
    /\ stack' = <<>>

Running == apc = "attached" /\ stack # <<>>

\* A verb of the facade: request_data(command, body) on an idle handle.
Verbs ==
    {ResetCommand}
    \cup {SetVolumeCommand(c, v) : c \in Channels, v \in Volumes}
    \cup {SetFaderCommand(f, c) : f \in Faders, c \in Channels}

CallVerb ==
    /\ apc = "attached"
    /\ stack = <<>>
    /\ lastRet.kind # "Panic"
    /\ calls < MaxCalls
    /\ \E cmd \in Verbs :
         stack' = <<Frame(cmd, RequestDataRetry, "verb")>>
    /\ calls' = calls + 1
    /\ txlog' = <<>>
    /\ lastRet' = NoRet
    /\ UNCHANGED <<command_count, pipe, prevTx>>
    /\ UNCHANGED <<impl, build>>
    /\ UNCHANGED attachVars
    /\ UNCHANGED otherThanDevice

\* if command == ResetCommandIndex { count = 0 } else {
\*     if <ResetsBeforeIncrement> { self.request_data(ResetCommandIndex, &[])?; }
\*     count += 1 }
Increment(f) ==
    IF Overflows(command_count) /\ build = "debug"
    THEN /\ Abort(f, "overflow", NoResp)
         /\ UNCHANGED command_count
    ELSE /\ command_count' = Incremented(command_count)
         /\ stack' = SetTop([f EXCEPT !.pc = "write", !.idx = Incremented(command_count)])
         /\ UNCHANGED lastRet

Enter ==
    /\ Running
    /\ Top.pc = "enter"
    /\ LET f == Top IN
         IF f.cmd.name = "ResetCommandIndex"
         THEN /\ command_count' = CountAfterReset(command_count)
              /\ stack' = SetTop([f EXCEPT !.pc = "write", !.entry = command_count,
                                           !.idx = CountAfterReset(command_count)])
              /\ UNCHANGED lastRet
         ELSE IF ResetsBeforeIncrement(command_count)
              THEN /\ stack' = Push([f EXCEPT !.pc = "wrapWait", !.entry = command_count],
                                    Frame(ResetCommand, RequestDataRetry, "wrap"))
                   /\ UNCHANGED <<command_count, lastRet>>
              ELSE Increment([f EXCEPT !.entry = command_count])
    /\ UNCHANGED <<pipe, txlog, prevTx, calls>>
    /\ UNCHANGED <<impl, build>>
    /\ UNCHANGED attachVars
    /\ UNCHANGED otherThanDevice

\* The `?` after the nested reset, then self.command_count += 1
AfterWrapReset ==
    /\ Running
    /\ Top.pc = "wrapWait"
    /\ LET f == Top IN
         IF lastRet.kind = "Err"
         THEN /\ Return([lastRet EXCEPT !.via = "wrap", !.retry = f.retry,
                            !.role = f.role, !.mism = f.mism, !.resync = f.resync])
              /\ UNCHANGED command_count
         ELSE Increment(f)
    /\ UNCHANGED <<pipe, txlog, prevTx, calls>>
    /\ UNCHANGED <<impl, build>>
    /\ UNCHANGED attachVars
    /\ UNCHANGED otherThanDevice

\* The device side of write_control(2, 0, 0, frame): it may answer with a frame
\* that echoes the request's index (a well-formed one, or one shorter than a
\* header), or drop the request.  Whatever it still holds answers an earlier
\* transmission.
Superseded(p) == [k \in 1..Len(p) |-> [p[k] EXCEPT !.cur = FALSE]]

DeviceAnswers(idx, p) ==
    {p} \cup
    (IF Len(p) < MaxPipe
     THEN {Append(p, [idx |-> idx, cur |-> TRUE, short |-> s]) : s \in BOOLEAN}
     ELSE {})

\* A retry invocation's transmissions are recorded with the invocation that
\* started the resync.
NoteResync(stk, f) ==
    IF f.retry /\ Len(stk) >= 2
    THEN [stk EXCEPT ![Len(stk) - 1].resync = Append(@, f.cmd.name)]
    ELSE stk

\* What the model remembers of a frame handed to write_control(2, 0, 0, ..)
TxEntry(f, ok) ==
    [cmd |-> f.cmd.name, sub |-> f.cmd.sub, body |-> f.cmd.body,
     idx |-> f.idx, entry |-> f.entry, retry |-> f.retry, role |-> f.role,
     after |-> prevTx, ok |-> ok, bytes |-> FullRequest(f.cmd, f.idx)]
\* (mutant) the probe transmits although the configuration cannot be read
IsConnectedUnreadableTransmits ==
    /\ apc = "attached"
    /\ stack = <<>>
    /\ lastRet.kind # "Panic"
    /\ calls < MaxCalls
    /\ impl = "usb"
    /\ lastRet' = [NoRet EXCEPT !.kind = "False", !.cmd = "is_connected"]
    /\ calls' = calls + 1
    /\ txlog' = <<TxEntry(Frame(ResetCommand, RequestDataRetry, "verb"), TRUE)>>
    /\ UNCHANGED <<command_count, stack, pipe, prevTx>>
    /\ UNCHANGED <<impl, build>>
    /\ UNCHANGED attachVars
    /\ UNCHANGED otherThanDevice

\* is_connected when self.handle.active_configuration() is an error: false is
\* returned and request_data is not called. (With a readable configuration
\* is_connected is the verb ResetCommand of CallVerb, and returns whether
\* that verb returned Ok.)
IsConnectedUnreadable ==
    /\ apc = "attached"
    /\ stack = <<>>
    /\ lastRet.kind # "Panic"
    /\ calls < MaxCalls
    /\ impl = "usb"
    /\ lastRet' = [NoRet EXCEPT !.kind = "False", !.cmd = "is_connected"]
    /\ calls' = calls + 1
    /\ txlog' = <<>>
    /\ UNCHANGED <<command_count, stack, pipe, prevTx>>
    /\ UNCHANGED <<impl, build>>
    /\ UNCHANGED attachVars
    /\ UNCHANGED otherThanDevice

\* let command_index = self.command_count; .. self.write_control(2, 0, 0, &full_request)?;
Transmit ==
    /\ Running
    /\ Top.pc = "write"
    /\ LET f == Top IN
         /\ prevTx' = f.cmd.name
         /\ \E o \in UsbOutcomes :
              /\ txlog' = Append(txlog, TxEntry(f, o = "Ok"))
              /\ IF o = "Ok"
                 THEN /\ pipe' \in DeviceAnswers(f.idx, Superseded(pipe))
                      /\ stack' = NoteResync(SetTop([f EXCEPT !.pc = "poll"]), f)
                      /\ UNCHANGED lastRet
                 ELSE /\ pipe' = Superseded(pipe)
                      /\ lastRet' = [Ret(f, "Err", o, FALSE, NoResp) EXCEPT
                                        !.lastTx = [role |-> f.role, idx |-> f.idx]]
                      /\ stack' = SubSeq(NoteResync(stack, f), 1, Len(stack) - 1)
    /\ UNCHANGED <<command_count, calls>>
    /\ UNCHANGED <<impl, build>>
    /\ UNCHANGED attachVars
    /\ UNCHANGED otherThanDevice

\* usb.rs line 230: `if i < 20` inside `for i in 0..20`
PipeSleepsAndContinues(i) == i < PollLimit

\* read_control(3, 0, 0, 1040) returned Err(Pipe)
OnPipe(f) ==
    IF impl = "legacy"
    THEN Return(Ret(f, "Err", "Pipe", FALSE, NoResp))
    ELSE IF PipeSleepsAndContinues(f.i)
         THEN IF f.i + 1 < PollLimit
              THEN /\ stack' = SetTop([f EXCEPT !.i = f.i + 1])
                   /\ UNCHANGED lastRet
              \* the for loop is exhausted: Ok(response) with response = vec![]
              ELSE Return(Ret([f EXCEPT !.i = f.i + 1], "Ok", "none", FALSE, NoResp))
         ELSE Return(Ret([f EXCEPT !.i = f.i + 1], "Err", "Pipe", FALSE, NoResp))

\* read_control(3, 0, 0, 1040) returned the frame r
OnFrame(f, r) ==
    LET g == [f EXCEPT !.i = f.i + 1] IN
    IF impl = "usb"
    THEN IF r.short
         THEN Return(Ret(g, "Err", "Pipe", FALSE, r))
         ELSE IF r.idx # f.idx
              THEN IF ~f.retry
                   \* the poll loop is left for good: its index is dead
                   THEN /\ stack' = Push([g EXCEPT !.pc = "resyncWait", !.mism = TRUE,
                                                   !.i = 0],
                                         Frame(ResetCommand, ResyncRetry,
                                               ChildRole(f, "Resync")))
                        /\ UNCHANGED lastRet
                   ELSE Return(Ret([g EXCEPT !.mism = TRUE], "Err", "Other", FALSE, r))
              ELSE Return(Ret(g, "Ok", "none", TRUE, r))
    ELSE \* response_header.split_off(16) panics when the vector is shorter
         IF r.short
         THEN Abort(g, "split_off", r)
         \* debug_assert!(response_command_index == command_index)
         ELSE IF r.idx # f.idx /\ build = "debug"
              THEN Abort([g EXCEPT !.mism = TRUE], "debug_assert", r)
              ELSE Return(Ret([g EXCEPT !.mism = (r.idx # f.idx)], "Ok", "none", TRUE, r))

\* (mutant) a read error other than Pipe is polled over like a Pipe
PollKeepsPolling ==
    /\ Running
    /\ Top.pc = "poll"
    /\ LET f == Top IN
         \/ /\ OnPipe(f)
            /\ UNCHANGED pipe
         \/ /\ lastRet' = Ret([f EXCEPT !.i = f.i + 1], "Err", "NoDevice", FALSE, NoResp)
            /\ stack' = SetTop([f EXCEPT !.i = (f.i + 1) % PollLimit])
            /\ UNCHANGED pipe
         \/ /\ pipe # <<>>
            /\ OnFrame(f, Head(pipe))
            /\ pipe' = Tail(pipe)
    /\ UNCHANGED <<command_count, txlog, prevTx, calls>>
    /\ UNCHANGED <<impl, build>>
    /\ UNCHANGED attachVars
    /\ UNCHANGED otherThanDevice

Poll ==
    /\ Running
    /\ Top.pc = "poll"
    /\ LET f == Top IN
         \/ /\ OnPipe(f)
            /\ UNCHANGED pipe
         \/ /\ Return(Ret([f EXCEPT !.i = f.i + 1], "Err", "NoDevice", FALSE, NoResp))
            /\ UNCHANGED pipe
         \/ /\ pipe # <<>>
            /\ OnFrame(f, Head(pipe))
            /\ pipe' = Tail(pipe)
    /\ UNCHANGED <<command_count, txlog, prevTx, calls>>
    /\ UNCHANGED <<impl, build>>
    /\ UNCHANGED attachVars
    /\ UNCHANGED otherThanDevice

\* What an invocation returns when it hands on the result of one it called.
HandOn(f, via) ==
    [lastRet EXCEPT !.via = via, !.retry = f.retry, !.role = f.role,
                    !.mism = f.mism, !.resync = f.resync]

\* let _ = self.perform_request(ResetCommandIndex, &[], true)?;
\* self.perform_request(command, body, true)
AfterResyncReset ==
    /\ Running
    /\ Top.pc = "resyncWait"
    /\ LET f == Top IN
         IF lastRet.kind = "Err"
         THEN Return(HandOn(f, "resync"))
         ELSE /\ stack' = Push([f EXCEPT !.pc = "retryWait"],
                               Frame(f.cmd, ResyncRetry, ChildRole(f, "Retry")))
              /\ UNCHANGED lastRet
    /\ UNCHANGED <<command_count, pipe, txlog, prevTx, calls>>
    /\ UNCHANGED <<impl, build>>
    /\ UNCHANGED attachVars
    /\ UNCHANGED otherThanDevice

AfterRetry ==
    /\ Running
    /\ Top.pc = "retryWait"
    /\ Return(HandOn(Top, "retry"))
    /\ UNCHANGED <<command_count, pipe, txlog, prevTx, calls>>
    /\ UNCHANGED <<impl, build>>
    /\ UNCHANGED attachVars
    /\ UNCHANGED otherThanDevice

---------------------------------------------------------------------------
(* The profile: ProfileSettings::write_to, Profile::load                    *)

\* Channels of the mixer table (a part of the InputChannels / OutputChannels
\* enums) and the two mixes
InputChannels == {"Mic", "Chat"}
OutputChannels == {"Headphones", "StreamMix"}
Mixes == {"A", "B"}

\* Values of a routing entry
Levels == {0, 1}

\* The fields of ProfileSettings that write_to reads and rewrites:
\*   submix_tree.monitor_tree: monitored_output, headphone_mix, routing
\*   mixer.mixer_table
SettingsSpace ==
    [monitored_output : OutputChannels,
     headphone_mix    : Mixes,
     routing          : [InputChannels -> Levels],
     mixer_table      : [InputChannels -> [OutputChannels -> Levels]]]

\* The writers of write_to in the order it calls them, grouped by what they
\* emit: the declaration, the components before the submixer, the submixer
\* (monitor tree), the mixer (mixer table), and every component after it.
WriterOrder == <<"decl", "before_submixer", "submixer", "mixer", "after_mixer">>

WriterIndex(w) == CHOOSE k \in 1..Len(WriterOrder) : WriterOrder[k] = w

\* The writer w ran to completion in a call whose first failing writer is fail
Completed(w, fail) == fail = "none" \/ WriterIndex(w) < WriterIndex(fail)

\* (mutant) the monitor fields are rewritten but the column is not replaced
RewrittenKeepsColumn(s) ==
    [s EXCEPT !.monitored_output = "Headphones", !.headphone_mix = "A"]

\* routing[input][Headphones] = headphone_routing[input] for every input;
\* set_monitored_output(Headphones); set_headphone_mix(Mix::A)
Rewritten(s) ==
    [s EXCEPT !.mixer_table =
                 [i \in InputChannels |->
                     [s.mixer_table[i] EXCEPT !["Headphones"] = s.routing[i]]],
              !.monitored_output = "Headphones",
              !.headphone_mix = "A"]

\* if monitored_output != OutputChannels::Headphones { .. }   (line 627)
BeforeWriting(s) ==
    IF s.monitored_output # "Headphones" THEN Rewritten(s) ELSE s

\* (mutant) nothing is put back after writing
RestoredNothing(cur, monitored_output, headphone_mix) == cur

\* routing[input][Headphones] = routing[input][monitored_output] for every
\* input; set_monitored_output(monitored_output); set_headphone_mix(headphone_mix)
Restored(cur, monitored_output, headphone_mix) ==
    [cur EXCEPT !.mixer_table =
                   [i \in InputChannels |->
                       [cur.mixer_table[i] EXCEPT
                           !["Headphones"] = cur.mixer_table[i][monitored_output]]],
                !.monitored_output = monitored_output,
                !.headphone_mix = headphone_mix]

\* if monitored_output != OutputChannels::Headphones { .. }   (line 704)
AfterWriting(cur, monitored_output, headphone_mix) ==
    IF monitored_output # "Headphones"
    THEN Restored(cur, monitored_output, headphone_mix)
    ELSE cur

\* What reaches the sink: the monitor tree as write_submixer finds it and the
\* mixer table as write_mixers finds it (an absent part is the empty sequence).
NoDocument == [monitor |-> <<>>, mixer |-> <<>>, complete |-> FALSE]

Emitted(s, fail) ==
    [monitor  |-> IF Completed("submixer", fail)
                  THEN <<[monitored_output |-> s.monitored_output,
                          headphone_mix    |-> s.headphone_mix,
                          routing          |-> s.routing]>>
                  ELSE <<>>,
     mixer    |-> IF Completed("mixer", fail) THEN <<s.mixer_table>> ELSE <<>>,
     complete |-> fail = "none"]

\* scribbles: [Vec<u8>; 4]; an empty vector is a scribble that is not there
ScribbleSlots == 1..4
Blob == <<137, 80>>

\* An archive that holds nothing yet
NoArchive ==
    [xml |-> <<>>, scribble |-> [i \in ScribbleSlots |-> <<>>], finished |-> FALSE]

\* Saves made in one behaviour
MaxSaves == 2

\* pub fn write_to<W: Write>(&mut self, sink: W) -> Result<()>
\* Every writer is followed by `?`: the first one that fails ends the call.
WriteTo ==
    /\ saves < MaxSaves
    /\ \E fail \in {"none"} \cup {WriterOrder[k] : k \in 1..Len(WriterOrder)} :
         LET monitored_output == settings.monitored_output
             headphone_mix == settings.headphone_mix
             written == IF fail = "decl" THEN settings ELSE BeforeWriting(settings)
         IN /\ document' = Emitted(written, fail)
            /\ settings' = IF fail = "none"
                           THEN AfterWriting(written, monitored_output, headphone_mix)
                           ELSE written
            /\ writeResult' = IF fail = "none" THEN "Ok" ELSE "Err"
            /\ failedAt' = fail
    /\ preSave' = settings
    /\ archive' = NoArchive
    /\ loaded' = <<>>
    /\ saves' = saves + 1
    /\ UNCHANGED scribbles
    /\ UNCHANGED otherThanProfile

\* if !self.scribbles[i].is_empty() { start_file(scribble{i + 1}.png); write_all }
WrittenScribbles(sc) ==
    [i \in ScribbleSlots |-> IF sc[i] # <<>> THEN <<sc[i]>> ELSE <<>>]

\* Profile::save after write_to returned Ok: the scribbles, archive.finish()?
ArchiveScribbles ==
    /\ writeResult = "Ok"
    /\ archive = NoArchive
    /\ \E ok \in BOOLEAN :
         archive' = [xml |-> <<document>>,
                     scribble |-> WrittenScribbles(scribbles),
                     finished |-> ok]
    /\ UNCHANGED <<settings, scribbles, preSave, document, writeResult, failedAt,
                   loaded, saves>>
    /\ UNCHANGED otherThanProfile

\* (mutant) slot i is read from the file of slot i - 1
ReadScribblesOffByOne(files) ==
    [i \in ScribbleSlots |->
        IF i > 1 /\ files[i - 1] # <<>> THEN files[i - 1][1] ELSE <<>>]

\* if let Ok(mut file) = archive.by_name(scribble{i + 1}.png) { read_exact }
ReadScribbles(files) ==
    [i \in ScribbleSlots |-> IF files[i] # <<>> THEN files[i][1] ELSE <<>>]

\* ProfileSettings::load of the monitorTree and mixerTree elements: each
\* attribute is read back into the field it was written from.
ParsedSettings(doc) ==
    [monitored_output |-> doc.monitor[1].monitored_output,
     headphone_mix    |-> doc.monitor[1].headphone_mix,
     routing          |-> doc.monitor[1].routing,
     mixer_table      |-> doc.mixer[1]]

\* pub fn load<R: Read + std::io::Seek>(read: R) -> Result<Self>
Load ==
    /\ archive.finished
    /\ loaded = <<>>
    /\ loaded' = <<[settings  |-> ParsedSettings(archive.xml[1]),
                    scribbles |-> ReadScribbles(archive.scribble)]>>
    /\ UNCHANGED <<settings, scribbles, preSave, document, writeResult, failedAt,
                   archive, saves>>
    /\ UNCHANGED otherThanProfile

\* No profile is open.
ProfileIdle ==
    /\ settings = [monitored_output |-> "Headphones", headphone_mix |-> "A",
                   routing |-> [i \in InputChannels |-> 0],
                   mixer_table |-> [i \in InputChannels |->
                                       [o \in OutputChannels |-> 0]]]
    /\ scribbles = [i \in ScribbleSlots |-> <<>>]
    /\ preSave = settings
    /\ document = NoDocument
    /\ writeResult = "none"
    /\ failedAt = "none"
    /\ archive = NoArchive
    /\ loaded = <<>>
    /\ saves = 0

\* A profile that Profile::load has just produced from some archive.
ProfileLoaded ==
    /\ settings \in SettingsSpace
    /\ scribbles \in [ScribbleSlots -> {<<>>, Blob}]
    /\ preSave = settings
    /\ document = NoDocument
    /\ writeResult = "none"
    /\ failedAt = "none"
    /\ archive = NoArchive
    /\ loaded = <<>>
    /\ saves = 0

---------------------------------------------------------------------------
(* Saving to disk: Profile::save and Settings::write                        *)

\* Length of the saved file, in the blocks fs::copy moves at a time
FileBlocks == 3

OldFile == [k \in 1..FileBlocks |-> "old"]
NewFile == [k \in 1..FileBlocks |-> "new"]

\* (mutant) the copy is made before the temporary file is synced
SaveOrderCopyBeforeSync == <<"temp", "serialise", "copy", "sync", "remove", "done">>

\* NamedTempFile::new()?; serialise (and archive.finish()?); sync_all()?;
\* fs::copy(temp, path)?; fs::remove_file(temp)?; Ok(())
SaveOrder == <<"temp", "serialise", "sync", "copy", "remove", "done">>

SaveNext(at) ==
    CHOOSE n \in {SaveOrder[i] : i \in 1..Len(SaveOrder)} :
        \E i \in 1..(Len(SaveOrder) - 1) : SaveOrder[i] = at /\ SaveOrder[i + 1] = n

\* return Err(..) / `?`
SaveFails(at) ==
    /\ fpc' = "stopped"
    /\ fileResult' = "Err"
    /\ fileFailedAt' = at

\* Settings::write only: create_dir_all(parent), AlreadyExists tolerated
SaveMakeDir ==
    /\ fpc = "mkdir"
    /\ \/ /\ fpc' = SaveOrder[1]
          /\ UNCHANGED <<fileResult, fileFailedAt>>
       \/ SaveFails("mkdir")
    /\ UNCHANGED <<fkind, temp, tempSynced, dest, copied, observed>>
    /\ UNCHANGED otherThanFiles

\* let temp_file = tempfile::NamedTempFile::new()?;
SaveCreateTemp ==
    /\ fpc = "temp"
    /\ \/ /\ fpc' = SaveNext("temp")
          /\ UNCHANGED <<fileResult, fileFailedAt>>
       \/ SaveFails("temp")
    /\ UNCHANGED <<fkind, temp, tempSynced, dest, copied, observed>>
    /\ UNCHANGED otherThanFiles

\* Profile::save:    start_file?; write_to?; the scribbles; archive.finish()?
\* Settings::write:  serde_json::to_writer_pretty(temp_file.as_file(), self)?
\* A failure leaves the temporary file with what had been written by then.
SaveSerialise ==
    /\ fpc = "serialise"
    /\ \E n \in 0..FileBlocks :
         /\ temp' = SubSeq(NewFile, 1, n)
         /\ \/ /\ n = FileBlocks
               /\ fpc' = SaveNext("serialise")
               /\ UNCHANGED <<fileResult, fileFailedAt>>
            \/ SaveFails("serialise")
    /\ UNCHANGED <<fkind, tempSynced, dest, copied, observed>>
    /\ UNCHANGED otherThanFiles

\* temp_file.as_file().sync_all()?;
SaveSync ==
    /\ fpc = "sync"
    /\ \/ /\ tempSynced' = TRUE
          /\ fpc' = SaveNext("sync")
          /\ UNCHANGED <<fileResult, fileFailedAt>>
       \/ /\ SaveFails("sync")
          /\ UNCHANGED tempSynced
    /\ UNCHANGED <<fkind, temp, dest, copied, observed>>
    /\ UNCHANGED otherThanFiles

\* fs::copy(temp, path)?: the destination is opened for writing and truncated,
\* or the open fails and nothing is touched.
SaveCopyOpen ==
    /\ fpc = "copy"
    /\ \/ /\ dest' = <<>>
          /\ copied' = 0
          /\ fpc' = "copying"
          /\ UNCHANGED <<fileResult, fileFailedAt>>
       \/ /\ SaveFails("copy")
          /\ UNCHANGED <<dest, copied>>
    /\ UNCHANGED <<fkind, temp, tempSynced, observed>>
    /\ UNCHANGED otherThanFiles

\* fs::copy, continued: one more block of the temporary file reaches the
\* destination, or the write fails; after the last block the copy returns.
SaveCopyBlock ==
    /\ fpc = "copying"
    /\ IF copied < Len(temp)
       THEN \/ /\ dest' = Append(dest, temp[copied + 1])
               /\ copied' = copied + 1
               /\ UNCHANGED <<fpc, fileResult, fileFailedAt>>
            \/ /\ SaveFails("copy")
               /\ UNCHANGED <<dest, copied>>
       ELSE /\ fpc' = SaveNext("copy")
            /\ UNCHANGED <<dest, copied, fileResult, fileFailedAt>>
    /\ UNCHANGED <<fkind, temp, tempSynced, observed>>
    /\ UNCHANGED otherThanFiles

\* fs::remove_file(temp_file)?; Ok(())
SaveRemoveTemp ==
    /\ fpc = "remove"
    /\ \/ /\ fpc' = "stopped"
          /\ fileResult' = "Ok"
          /\ UNCHANGED fileFailedAt
       \/ SaveFails("remove")
    /\ UNCHANGED <<fkind, temp, tempSynced, dest, copied, observed>>
    /\ UNCHANGED otherThanFiles

\* The writing process is stopped (killed, power lost) wherever it is.
SaveInterrupted ==
    /\ fpc \notin {"stopped", "unused"}
    /\ fpc' = "stopped"
    /\ fileResult' = "Interrupted"
    /\ fileFailedAt' = (IF fpc = "copying" THEN "copy" ELSE fpc)
    /\ UNCHANGED <<fkind, temp, tempSynced, dest, copied, observed>>
    /\ UNCHANGED otherThanFiles

\* Settings::read / Profile::load by another thread or process: File::open and
\* a read of what the destination holds at that moment.
ReadDestination ==
    /\ fpc # "unused"
    /\ observed' = dest
    /\ UNCHANGED <<fkind, fpc, temp, tempSynced, dest, copied, fileResult,
                   fileFailedAt>>
    /\ UNCHANGED otherThanFiles

\* Nothing is being saved.
FilesIdle ==
    /\ fkind = "none"
    /\ fpc = "unused"
    /\ temp = <<>>
    /\ tempSynced = FALSE
    /\ dest = OldFile
    /\ copied = 0
    /\ fileResult = "none"
    /\ fileFailedAt = "none"
    /\ observed = OldFile

\* Profile::save or Settings::write is entered with a destination that holds
\* an earlier save.
FilesInit ==
    /\ fkind \in {"profile", "settings"}
    /\ fpc = (IF fkind = "settings" THEN "mkdir" ELSE SaveOrder[1])
    /\ temp = <<>>
    /\ tempSynced = FALSE
    /\ dest = OldFile
    /\ copied = 0
    /\ fileResult = "none"
    /\ fileFailedAt = "none"
    /\ observed = OldFile

---------------------------------------------------------------------------
(* Reverb presets: the setters of ReverbEncoder                             *)

\* ReverbEncoder::new()
NewReverbEncoder ==
    [knob_position |-> 0, style |-> "Library", reverb_type |-> 0, decay |-> 0,
     pre_delay |-> 0, diffuse |-> 0, low_color |-> 0, high_color |-> 0,
     high_factor |-> 0, mod_speed |-> 0, mod_depth |-> 0, early_level |-> 0,
     tail_level |-> 0, dry_level |-> 0]

\* return Err(anyhow!(message)) / Ok(())
Rejected(p, message) == [result |-> message, preset |-> p]
Accepted(p) == [result |-> "Ok", preset |-> p]

\* `as i8` on an integer
AsI8(n) == ((n + 128) % 256) - 128

\* !(lo..=hi).contains(&value)
OutOfRange(lo, hi, value) == ~(lo <= value /\ value <= hi)

set_knob_position(p, knob_position) ==
    IF OutOfRange(0, 24, knob_position)
    THEN Rejected(p, "Reverb Knob Position should be between 0 and 24")
    ELSE Accepted([p EXCEPT !.knob_position = knob_position])

\* self.set_knob_position(((percentage as i16 * 24) / 100) as i8)?
set_percentage_amount(p, percentage) ==
    IF percentage > 100
    THEN Rejected(p, "Value must be a percentage")
    ELSE LET r == set_knob_position(p, AsI8((percentage * 24) \div 100))
         IN IF r.result # "Ok" THEN r ELSE Accepted(r.preset)

set_decay_millis(p, milliseconds) ==
    IF milliseconds > 20000
    THEN Rejected(p, "Decay should be below 20000 milliseconds")
    ELSE IF milliseconds <= 1000
         THEN Accepted([p EXCEPT !.decay = milliseconds \div 10])
         ELSE Accepted([p EXCEPT !.decay = 100 + ((milliseconds - 1000) \div 100)])

\* if milliseconds > 20000 { return Err(..) }
MaxDecayMillis == 20000

\* (mutant) every decay is read as tens of milliseconds
get_decay_millis_tens(p) ==
    [value |-> (p.decay * 10) % 65536, overflow |-> p.decay * 10 > 65535]

\* get_decay_millis(): u16 arithmetic; `overflow` tells whether a product or
\* the sum left the u16 range (a panic with overflow checks, the wrapped
\* value without)
get_decay_millis(p) ==
    LET decay == p.decay
        current == decay - 100
        addition == current * 100
    IN IF decay <= 100
       THEN [value |-> decay * 10, overflow |-> FALSE]
       ELSE [value |-> (1000 + (addition % 65536)) % 65536,
             overflow |-> addition > 65535 \/ 1000 + (addition % 65536) > 65535]

\* (mutant) the value is stored before it is checked
set_predelay_stored_first(p, value) ==
    IF value > 100
    THEN Rejected([p EXCEPT !.pre_delay = value], "Predelay must be between 0 and 100ms")
    ELSE Accepted([p EXCEPT !.pre_delay = value])

set_predelay(p, value) ==
    IF value > 100
    THEN Rejected(p, "Predelay must be between 0 and 100ms")
    ELSE Accepted([p EXCEPT !.pre_delay = value])

set_diffuse(p, value) ==
    IF OutOfRange(-50, 50, value)
    THEN Rejected(p, "Diffuse should be between -50 and 50")
    ELSE Accepted([p EXCEPT !.diffuse = value])

set_low_color(p, value) ==
    IF OutOfRange(-50, 50, value)
    THEN Rejected(p, "LoColour should be between -50 and 50")
    ELSE Accepted([p EXCEPT !.low_color = value])

set_hi_color(p, value) ==
    IF OutOfRange(-50, 50, value)
    THEN Rejected(p, "HiColour should be between -50 and 50")
    ELSE Accepted([p EXCEPT !.high_color = value])

set_hi_factor(p, value) ==
    IF OutOfRange(-25, 25, value)
    THEN Rejected(p, "HiFactor should be between -25 and 25")
    ELSE Accepted([p EXCEPT !.high_factor = value])

set_mod_speed(p, value) ==
    IF OutOfRange(-25, 25, value)
    THEN Rejected(p, "Mod Speed should be between -25 and 25")
    ELSE Accepted([p EXCEPT !.mod_speed = value])

set_mod_depth(p, value) ==
    IF OutOfRange(-25, 25, value)
    THEN Rejected(p, "Mod Depth should be between -25 and 25")
    ELSE Accepted([p EXCEPT !.mod_depth = value])

set_early_level(p, value) ==
    IF OutOfRange(-25, 0, value)
    THEN Rejected(p, "Early Level should be between -25 and 0")
    ELSE Accepted([p EXCEPT !.early_level = value])

set_tail_level(p, value) ==
    IF OutOfRange(-25, 0, value)
    THEN Rejected(p, "Tail Level should be between -25 and 0")
    ELSE Accepted([p EXCEPT !.tail_level = value])

\* enum ReverbStyle in declaration order; uiIndex is the position from 0
ReverbStyle ==
    <<"Library", "DarkBloom", "MusicClub", "RealPlate", "Chapel", "HockeyArena">>

\* ReverbPreset::get_preset: the frozen table, one row per style
get_preset(style) ==
    CASE style = "Library" ->
           [reverb_type |-> 9, decay |-> 77, pre_delay |-> 0, diffuse |-> 0,
            low_color |-> 0, high_color |-> -32, high_factor |-> -6,
            mod_speed |-> 0, mod_depth |-> 0, early_level |-> -1, tail_level |-> 0]
      [] style = "DarkBloom" ->
           [reverb_type |-> 5, decay |-> 96, pre_delay |-> 0, diffuse |-> -50,
            low_color |-> 0, high_color |-> -50, high_factor |-> -25,
            mod_speed |-> -25, mod_depth |-> -25, early_level |-> -25, tail_level |-> 0]
      [] style = "MusicClub" ->
           [reverb_type |-> 12, decay |-> 106, pre_delay |-> 15, diffuse |-> 0,
            low_color |-> 0, high_color |-> 0, high_factor |-> 0,
            mod_speed |-> 0, mod_depth |-> 0, early_level |-> 0, tail_level |-> 0]
      [] style = "RealPlate" ->
           [reverb_type |-> 9, decay |-> 115, pre_delay |-> 15, diffuse |-> 0,
            low_color |-> 21, high_color |-> -17, high_factor |-> -22,
            mod_speed |-> -3, mod_depth |-> 8, early_level |-> 0, tail_level |-> 0]
      [] style = "Chapel" ->
           [reverb_type |-> 0, decay |-> 118, pre_delay |-> 15, diffuse |-> 0,
            low_color |-> -23, high_color |-> -35, high_factor |-> 13,
            mod_speed |-> 0, mod_depth |-> 0, early_level |-> -25, tail_level |-> 0]
      [] style = "HockeyArena" ->
           [reverb_type |-> 1, decay |-> 150, pre_delay |-> 100, diffuse |-> 0,
            low_color |-> 10, high_color |-> -39, high_factor |-> 21,
            mod_speed |-> -3, mod_depth |-> 21, early_level |-> 0, tail_level |-> 0]

\* (mutant) the style is recorded and the dependent parameters are left alone
set_style_only(p, style) == Accepted([p EXCEPT !.style = style])

\* The style and the two unchecked fields are assigned first; each checked
\* setter then runs on what the one before it left, `?` returning its error.
set_style(p, style) ==
    LET row == get_preset(style)
        chain == <<[f |-> "set_predelay", v |-> row.pre_delay],
                   [f |-> "set_diffuse", v |-> row.diffuse],
                   [f |-> "set_low_color", v |-> row.low_color],
                   [f |-> "set_hi_color", v |-> row.high_color],
                   [f |-> "set_hi_factor", v |-> row.high_factor],
                   [f |-> "set_mod_speed", v |-> row.mod_speed],
                   [f |-> "set_mod_depth", v |-> row.mod_depth],
                   [f |-> "set_early_level", v |-> row.early_level],
                   [f |-> "set_tail_level", v |-> row.tail_level]>>
        Step(r, c) ==
            IF r.result # "Ok" THEN r
            ELSE CASE c.f = "set_predelay"    -> set_predelay(r.preset, c.v)
                   [] c.f = "set_diffuse"     -> set_diffuse(r.preset, c.v)
                   [] c.f = "set_low_color"   -> set_low_color(r.preset, c.v)
                   [] c.f = "set_hi_color"    -> set_hi_color(r.preset, c.v)
                   [] c.f = "set_hi_factor"   -> set_hi_factor(r.preset, c.v)
                   [] c.f = "set_mod_speed"   -> set_mod_speed(r.preset, c.v)
                   [] c.f = "set_mod_depth"   -> set_mod_depth(r.preset, c.v)
                   [] c.f = "set_early_level" -> set_early_level(r.preset, c.v)
                   [] c.f = "set_tail_level"  -> set_tail_level(r.preset, c.v)
        Run[i \in 0..Len(chain)] ==
            IF i = 0
            THEN Accepted([p EXCEPT !.style = style,
                                    !.reverb_type = row.reverb_type,
                                    !.decay = row.decay])
            ELSE Step(Run[i - 1], chain[i])
    IN Run[Len(chain)]

\* attr.value.parse::<c_float>(): the texts a preset attribute is given here,
\* and the float each parses to (Err for a text that is no number)
parse_c_float(text) ==
    CASE text = "3"   -> [ok |-> TRUE, float |-> 3]
      [] text = "-5"  -> [ok |-> TRUE, float |-> -5]
      [] text = "500" -> [ok |-> TRUE, float |-> 500]
      [] OTHER        -> [ok |-> FALSE, float |-> 0]

\* `as u8`, `as u16`, `as i8` on a float: saturating at the ends of the type
FloatAs(lo, hi, float) == IF float < lo THEN lo ELSE IF float > hi THEN hi ELSE float

\* The attributes parse_reverb_preset assigns without a setter: the field
\* each one names and the type its value is cast to
ReverbAttributes ==
    [REVERB_TYPE       |-> [field |-> "reverb_type", lo |-> 0, hi |-> 255],
     REVERB_DECAY      |-> [field |-> "decay", lo |-> 0, hi |-> 65535],
     REVERB_PREDELAY   |-> [field |-> "pre_delay", lo |-> 0, hi |-> 255],
     REVERB_DIFFUSE    |-> [field |-> "diffuse", lo |-> -128, hi |-> 127],
     REVERB_LOCOLOR    |-> [field |-> "low_color", lo |-> -128, hi |-> 127],
     REVERB_HICOLOR    |-> [field |-> "high_color", lo |-> -128, hi |-> 127],
     REVERB_HIFACTOR   |-> [field |-> "high_factor", lo |-> -128, hi |-> 127],
     REVERB_MODSPEED   |-> [field |-> "mod_speed", lo |-> -128, hi |-> 127],
     REVERB_MODDEPTH   |-> [field |-> "mod_depth", lo |-> -128, hi |-> 127],
     REVERB_EARLYLEVEL |-> [field |-> "early_level", lo |-> -128, hi |-> 127],
     REVERB_TAILLEVEL  |-> [field |-> "tail_level", lo |-> -128, hi |-> 127],
     REVERB_DRYLEVEL   |-> [field |-> "dry_level", lo |-> -128, hi |-> 127]]

\* The preset starts as ReverbEncoder::new(); the attributes are taken in
\* order, the first error ending the parse.
parse_reverb_preset(attrs) ==
    LET One(p, a) ==
            LET parsed == parse_c_float(a.value)
            IN IF a.name = "REVERB_STYLE"
               THEN IF \E i \in 1..Len(ReverbStyle) : ToString(i - 1) = a.value
                    THEN Accepted([p EXCEPT !.style =
                             ReverbStyle[CHOOSE i \in 1..Len(ReverbStyle) : ToString(i - 1) = a.value]])
                    ELSE Accepted(p)
               ELSE IF a.name = "REVERB_KNOB_POSITION"
               THEN IF ~parsed.ok THEN Rejected(p, "Expected float")
                    ELSE set_knob_position(p, FloatAs(-128, 127, parsed.float))
               ELSE IF a.name \in DOMAIN ReverbAttributes
               THEN IF ~parsed.ok THEN Rejected(p, "Expected float")
                    ELSE Accepted([p EXCEPT ![ReverbAttributes[a.name].field] =
                             FloatAs(ReverbAttributes[a.name].lo, ReverbAttributes[a.name].hi,
                                     parsed.float)])
               ELSE Accepted(p)
        Run[i \in 0..Len(attrs)] ==
            IF i = 0 THEN Accepted(NewReverbEncoder)
            ELSE IF Run[i - 1].result # "Ok" THEN Run[i - 1]
            ELSE One(Run[i - 1].preset, attrs[i])
    IN Run[Len(attrs)]

\* Preset elements read: every single attribute, known or not, with every
\* text, and elements of two attributes where the first is unknown or the
\* second malformed
PresetElements ==
    LET names == DOMAIN ReverbAttributes
                 \cup {"REVERB_STYLE", "REVERB_KNOB_POSITION", "REVERB_FUTURE"}
        one == [name : names, value : {"3", "-5", "500", "abc"}]
    IN {<<a>> : a \in one}
       \cup {<<[name |-> "REVERB_FUTURE", value |-> "abc"], a>> :
                a \in [name : {"REVERB_DIFFUSE", "REVERB_DECAY"}, value : {"3", "abc"}]}
       \cup {<<[name |-> "REVERB_DECAY", value |-> "3"], a>> :
                a \in [name : {"REVERB_PREDELAY", "REVERB_STYLE"}, value : {"3", "abc"}]}

\* Arguments tried, by parameter type: the ends of the type and both sides of
\* every range boundary
I8Inputs == {-128, -51, -50, -26, -25, 0, 1, 24, 25, 26, 50, 51, 127}
U8Inputs == {0, 24, 50, 100, 101, 150, 255}
U16Inputs == {0, 999, 1000, 1001, 20000, 20001, 65535}

I8Setters ==
    {"set_knob_position", "set_diffuse", "set_low_color", "set_hi_color",
     "set_hi_factor", "set_mod_speed", "set_mod_depth", "set_early_level",
     "set_tail_level"}
U8Setters == {"set_percentage_amount", "set_predelay"}
U16Setters == {"set_decay_millis"}

SetterCalls ==
    [name : I8Setters, value : I8Inputs]
    \cup [name : U8Setters, value : U8Inputs]
    \cup [name : U16Setters, value : U16Inputs]

NoSetterCall == [name |-> "none", value |-> 0]

CallSetter(name, p, value) ==
    CASE name = "set_knob_position"     -> set_knob_position(p, value)
      [] name = "set_percentage_amount" -> set_percentage_amount(p, value)
      [] name = "set_decay_millis"      -> set_decay_millis(p, value)
      [] name = "set_predelay"          -> set_predelay(p, value)
      [] name = "set_diffuse"           -> set_diffuse(p, value)
      [] name = "set_low_color"         -> set_low_color(p, value)
      [] name = "set_hi_color"          -> set_hi_color(p, value)
      [] name = "set_hi_factor"         -> set_hi_factor(p, value)
      [] name = "set_mod_speed"         -> set_mod_speed(p, value)
      [] name = "set_mod_depth"         -> set_mod_depth(p, value)
      [] name = "set_early_level"       -> set_early_level(p, value)
      [] name = "set_tail_level"        -> set_tail_level(p, value)

\* Setter calls made in one behaviour
MaxSets == 2

\* One call of a setter on the preset.
ReverbSet ==
    /\ sets < MaxSets
    /\ \E call \in SetterCalls :
         LET r == CallSetter(call.name, preset, call.value)
         IN /\ setterCall' = call
            /\ setterResult' = r.result
            /\ preset' = r.preset
    /\ presetBefore' = preset
    /\ sets' = sets + 1
    /\ UNCHANGED attributes
    /\ UNCHANGED otherThanReverb

\* set_decay_millis(ms) on a new encoder, for every ms the setter accepts
DecayMillisSet ==
    /\ sets = 0
    /\ \E ms \in 0..MaxDecayMillis :
         LET r == set_decay_millis(preset, ms)
         IN /\ setterCall' = [name |-> "set_decay_millis", value |-> ms]
            /\ setterResult' = r.result
            /\ preset' = r.preset
    /\ presetBefore' = preset
    /\ sets' = sets + 1
    /\ UNCHANGED attributes
    /\ UNCHANGED otherThanReverb

\* set_decay_millis(get_decay_millis()) on the encoder as it is
DecayMillisRoundTrip ==
    /\ sets = 1
    /\ LET millis == get_decay_millis(preset)
           r == set_decay_millis(preset, millis.value)
       IN /\ setterCall' = [name |-> "round_trip", value |-> millis.value]
          /\ setterResult' = IF millis.overflow THEN "Overflow" ELSE r.result
          /\ preset' = r.preset
    /\ presetBefore' = preset
    /\ sets' = sets + 1
    /\ UNCHANGED attributes
    /\ UNCHANGED otherThanReverb

\* set_style on the preset.
ReverbSetStyle ==
    /\ sets < MaxSets
    /\ \E i \in 1..Len(ReverbStyle) :
         LET r == set_style(preset, ReverbStyle[i])
         IN /\ setterCall' = [name |-> "set_style", value |-> i - 1]
            /\ setterResult' = r.result
            /\ preset' = r.preset
    /\ presetBefore' = preset
    /\ sets' = sets + 1
    /\ UNCHANGED attributes
    /\ UNCHANGED otherThanReverb

\* The profile's preset element is parsed when the profile is loaded, before
\* any setter runs; an error ends the load and no preset is stored.
ReverbParse ==
    /\ sets = 0
    /\ attributes = <<>>
    /\ \E attrs \in PresetElements :
         LET r == parse_reverb_preset(attrs)
         IN /\ attributes' = attrs
            /\ setterResult' = r.result
            /\ preset' = IF r.result = "Ok" THEN r.preset ELSE preset
    /\ setterCall' = [name |-> "parse_reverb_preset", value |-> 0]
    /\ presetBefore' = preset
    /\ sets' = sets + 1
    /\ UNCHANGED otherThanReverb

\* No preset is being edited.
ReverbIdle ==
    /\ preset = NewReverbEncoder
    /\ presetBefore = NewReverbEncoder
    /\ setterCall = NoSetterCall
    /\ setterResult = "none"
    /\ sets = 0
    /\ attributes = <<>>

---------------------------------------------------------------------------
(* LinkingTree: the stereo-link flag and the link ratio of each input *)

\* The f64 values a ratio takes here. "1/255" stands for the value of
\* 1. / 255., "-0" for negative zero.
Floats == {"0", "-0", "1/255", "0.5", "1", "255", "inf", "-inf", "NaN"}

\* `==` on f64: NaN equals nothing, the two zeros equal each other
FloatEq(a, b) ==
    /\ a # "NaN"
    /\ b # "NaN"
    /\ (a = b \/ {a, b} \subseteq {"0", "-0"})

\* (mutant) the stored ratio is returned as it is
get_ratio_stored(ratios, channel) == ratios[channel]

get_ratio(ratios, channel) ==
    IF FloatEq(ratios[channel], "inf") THEN "255"
    ELSE IF FloatEq(ratios[channel], "0") THEN "1/255"
    ELSE ratios[channel]

\* attr.value.parse().unwrap_or(1.): the texts given to a Ratio attribute
\* here and the f64 each is read as
ParsedRatio(text) == IF text \in Floats THEN text ELSE "1"

\* parse_links with one attribute of the linkingTree element: <channel>Linked
\* or <channel>Ratio, for a channel that exists or one that does not.
LinkParse ==
    /\ \E channel \in InputChannels \cup {"Future"}, suffix \in {"Linked", "Ratio"},
          text \in {"0", "1", "0.5", "inf", "NaN", "abc"} :
         /\ linkCall' = [name |-> "parse_links", channel |-> channel,
                         suffix |-> suffix, value |-> text]
         /\ linked_list' = IF suffix = "Linked" /\ channel \in InputChannels
                           THEN [linked_list EXCEPT ![channel] = (text = "1")]
                           ELSE linked_list
         /\ linked_ratio' = IF suffix = "Ratio" /\ channel \in InputChannels
                            THEN [linked_ratio EXCEPT ![channel] = ParsedRatio(text)]
                            ELSE linked_ratio
    /\ linkResult' = "Ok"
    /\ UNCHANGED otherThanLinks

\* set_link_ratio(channel, ratio)
LinkSetRatio ==
    /\ \E channel \in InputChannels, ratio \in Floats :
         /\ linkCall' = [name |-> "set_link_ratio", channel |-> channel,
                         suffix |-> "", value |-> ratio]
         /\ IF FloatEq(ratio, "0") \/ FloatEq(ratio, "inf")
            THEN /\ linkResult' = "Invalid Ratio"
                 /\ UNCHANGED linked_ratio
            ELSE /\ linkResult' = "Ok"
                 /\ linked_ratio' = [linked_ratio EXCEPT ![channel] = ratio]
    /\ UNCHANGED linked_list
    /\ UNCHANGED otherThanLinks

\* LinkingTree::new(): every input linked, every ratio 1.0
LinksIdle ==
    /\ linked_list = [c \in InputChannels |-> TRUE]
    /\ linked_ratio = [c \in InputChannels |-> "1"]
    /\ linkCall = [name |-> "none", channel |-> "", suffix |-> "", value |-> ""]
    /\ linkResult = "none"

---------------------------------------------------------------------------
(* ProfileSettings::load, load_preset and write_to over the document's events *)

\* The sampler banks modelled (two of sampleTopLeft, sampleTopRight,
\* sampleBottomLeft, sampleBottomRight, sampleClear; all five are handled alike)
Banks == {"sampleTopLeft", "sampleClear"}

\* Events quick_xml hands the loader for the body of a profile: the start
\* element of a bank, a sampleStack leaf, a leaf of another component, an
\* end element.
BodyEvents ==
    [kind : {"Start"}, name : Banks, version : {0}]
    \cup {[kind |-> "Empty", name |-> "sampleStackA", version |-> 0],
          [kind |-> "Empty", name |-> "mixerTree", version |-> 0],
          [kind |-> "End", name |-> "", version |-> 0]}

\* Events a profile's body has at most
MaxBody == 4

\* Bodies in which every bank is a child of the root and is closed before the
\* next one opens (the reader reports any other nesting as an error).
Bodies ==
    LET seqs == UNION {[1..n -> BodyEvents] : n \in 0..MaxBody}
        Depth(b, i) == Cardinality({j \in 1..i : b[j].kind = "Start"})
                       - Cardinality({j \in 1..i : b[j].kind = "End"})
    IN {b \in seqs :
          /\ \A i \in 1..Len(b) : Depth(b, i) \in {0, 1}
          /\ Depth(b, Len(b)) = 0}

\* Profile documents: a ValueTreeRoot start element with its version, the
\* body and the root's end element; or a ValueTreeRoot written as an empty
\* element, which the reader reports as Event::Empty.
ProfileDocuments ==
    {<<[kind |-> "Start", name |-> "ValueTreeRoot", version |-> v]>>
        \o b \o <<[kind |-> "End", name |-> "", version |-> 0]>> :
        v \in {2, 3, 4}, b \in Bodies}
    \cup {<<[kind |-> "Empty", name |-> "ValueTreeRoot", version |-> v]>> : v \in {3, 4}}

\* The elements of a sequence
Range(f) == {f[x] : x \in DOMAIN f}

NoTree == [present |-> FALSE]

\* enum Preset: Preset1 .. Preset6
Presets == 1..6

\* The seven effects of a preset, by element name, in the order the preset
\* writer emits them
EffectElements ==
    <<"reverbEncoder", "echoEncoder", "pitchEncoder", "genderEncoder",
      "megaphoneEffect", "robotEffect", "hardtuneEffect">>

\* The event loop of load over the events of doc. A sampleStack leaf is
\* recorded in its bank by its position in the document.
\*   Start ValueTreeRoot: parse_root, bail if the version is above 3
\*   Start sample<Bank>:  a fresh SampleBase in the map, active_sample_button = it
\*   Empty sampleStack*:  parse_sample_stack on the active bank, if there is one
\*   Empty, other names:  parsed by their component or warned about
\*   End:                 nothing
load(doc) ==
    LET Run[i \in 0..Len(doc)] ==
            IF i = 0
            THEN [result |-> "Ok", version |-> 0, active |-> "None",
                  sampler_map |-> [b \in Banks |-> [some |-> FALSE, stacks |-> <<>>]]]
            ELSE LET st == Run[i - 1]
                     e == doc[i]
                 IN IF st.result # "Ok" THEN st
                    ELSE IF e.kind = "Start" /\ e.name = "ValueTreeRoot"
                    THEN [st EXCEPT !.version = e.version,
                                    !.result = IF e.version > 3 THEN "Err" ELSE "Ok"]
                    ELSE IF e.kind = "Start" /\ e.name \in Banks
                    THEN [st EXCEPT !.sampler_map[e.name] = [some |-> TRUE, stacks |-> <<>>],
                                    !.active = e.name]
                    ELSE IF e.kind = "Empty" /\ e.name = "sampleStackA" /\ st.active # "None"
                    THEN [st EXCEPT !.sampler_map[st.active].stacks = Append(@, i)]
                    ELSE st
    IN Run[Len(doc)]

\* ProfileSettings::load(read): Ok(Self { .. }) or the error; nothing is kept
\* of a load that failed. The parts of the document that are not events of
\* BodyEvents are chosen with it: the selected effects preset of the
\* selectedContext element, and whether the effects1..effects6 elements, the
\* mute<N>, FaderMeter<N> and scribble<N> elements, and the simple elements
\* are there.
LoadDocument ==
    /\ xmlOp = "none"
    /\ \E doc \in ProfileDocuments :
         LET r == load(doc)
         IN /\ xmlDoc' = doc
            /\ xmlResult' = r.result
            /\ \E selected \in Presets, groups \in BOOLEAN, strips \in BOOLEAN,
                  simple \in BOOLEAN :
                 tree' = IF r.result = "Ok"
                         THEN [present |-> TRUE, version |-> r.version,
                               sampler_map |-> r.sampler_map,
                               selected_effects |-> selected,
                               strips |-> strips,
                               simple_elements |-> simple,
                               effects |-> [q \in Presets |->
                                              [some |-> groups, name |-> "profile"]],
                               presets |-> [e \in Range(EffectElements) |->
                                              [q \in Presets |-> "profile"]]]
                         ELSE NoTree
    /\ xmlOp' = "load"
    /\ treeBefore' = tree
    /\ UNCHANGED emitted
    /\ UNCHANGED otherThanXml

\* Preset documents: the root, as a start element with or without a name
\* attribute, then effect elements (all seven, one of them or none, at most
\* one with a malformed attribute) and the root's end element; or a root
\* written as an empty element, without a name.
PresetDocuments ==
    LET Child(e, good) == [kind |-> "Empty", name |-> e, ok |-> good]
        all == {[i \in 1..7 |-> Child(EffectElements[i], i # bad)] : bad \in 0..7}
        single == {<<Child(e, good)>> : e \in Range(EffectElements), good \in BOOLEAN}
    IN {<<[kind |-> "Start", name |-> "preset", ok |-> named]>>
           \o c \o <<[kind |-> "End", name |-> "", ok |-> TRUE]>> :
           named \in BOOLEAN, c \in all \cup single \cup {<<>>}}
       \cup {<<[kind |-> "Empty", name |-> "preset", ok |-> FALSE]>>}

\* The event loop of load_preset on the ProfileSettings t.
\*   current = self.context().selected_effects()
\*   Empty <effect>: parse_<effect>_preset(current, attributes)?, which stores
\*                   the preset it built in slot `current` unless an
\*                   attribute fails to parse
\*   Start:          set_name of effects_mut(current) from the name attribute
\*                   (effects_mut unwraps the group), or bail without one
load_preset(t, doc) ==
    LET current == t.selected_effects
        Run[i \in 0..Len(doc)] ==
            IF i = 0 THEN [result |-> "Ok", tree |-> t]
            ELSE LET st == Run[i - 1]
                     e == doc[i]
                 IN IF st.result # "Ok" THEN st
                    ELSE IF e.kind = "Empty" /\ e.name \in Range(EffectElements)
                    THEN IF e.ok
                         THEN [st EXCEPT !.tree.presets[e.name][current] = "imported"]
                         ELSE [st EXCEPT !.result = "Err"]
                    ELSE IF e.kind = "Start"
                    THEN IF ~e.ok THEN [st EXCEPT !.result = "Err"]
                         ELSE IF ~st.tree.effects[current].some
                         THEN [st EXCEPT !.result = "Abort"]
                         ELSE [st EXCEPT !.tree.effects[current].name = "imported"]
                    ELSE st
    IN Run[Len(doc)]

\* load_preset(read) on the profile in memory.
LoadPreset ==
    /\ xmlOp = "load"
    /\ tree.present
    /\ \E doc \in PresetDocuments :
         LET r == load_preset(tree, doc)
         IN /\ xmlDoc' = doc
            /\ xmlResult' = r.result
            /\ tree' = r.tree
    /\ xmlOp' = "load_preset"
    /\ treeBefore' = tree
    /\ UNCHANGED emitted
    /\ UNCHANGED otherThanXml

\* (mutant) the mixer is written before the submixer
WritersMixerFirst(t) ==
    <<"ValueTreeRoot", "browserPreviewTree", "animationTree", "mixRoutingTree",
      "mixerTree", "submixerTree", "selectedContext", "muteChat", "/ValueTreeRoot">>

\* The element writers write_to calls for the ProfileSettings t, in the order
\* of its statements; a slot that is None is passed over by `if let Some`.
\* The simple elements are unwrapped: they appear here when they are there.
Writers(t) ==
    LET If(c, names) == IF c THEN names ELSE <<>>
    IN <<"ValueTreeRoot", "browserPreviewTree", "animationTree", "mixRoutingTree",
         "submixerTree", "mixerTree", "selectedContext", "muteChat">>
       \o If(t.strips, <<"mute1", "mute2", "mute3", "mute4">>)
       \o If(t.strips, <<"FaderMeter0", "FaderMeter1", "FaderMeter2", "FaderMeter3">>)
       \o If(t.effects[1].some,
             <<"effects1", "effects2", "effects3", "effects4", "effects5", "effects6">>)
       \o If(t.strips, <<"scribble1", "scribble2", "scribble3", "scribble4">>)
       \o <<"megaphoneEffect", "robotEffect", "hardtuneEffect", "reverbEncoder",
            "echoEncoder", "pitchEncoder", "genderEncoder">>
       \o If(t.sampler_map["sampleTopLeft"].some, <<"sampleTopLeft">>)
       \o If(t.sampler_map["sampleClear"].some, <<"sampleClear">>)
       \o If(t.simple_elements, <<"sampleBankA", "fxClear", "/ValueTreeRoot">>)

\* write_to(sink) on the profile in memory: every writer is followed by `?`,
\* so the writer that fails, if one does, ends the call after the elements
\* before it; unwrap() of a simple element that is None ends it by a panic.
WriteElements ==
    /\ xmlOp = "load"
    /\ tree.present
    /\ \E fail \in 0..Len(Writers(tree)) :
         /\ emitted' = IF fail = 0 THEN Writers(tree)
                       ELSE SubSeq(Writers(tree), 1, fail - 1)
         /\ xmlResult' = IF fail # 0 THEN "Err"
                         ELSE IF tree.simple_elements THEN "Ok" ELSE "Abort"
    /\ xmlOp' = "write_to"
    /\ xmlDoc' = <<>>
    /\ treeBefore' = tree
    /\ UNCHANGED tree
    /\ UNCHANGED otherThanXml

\* No document has been read.
XmlIdle ==
    /\ xmlOp = "none"
    /\ xmlDoc = <<>>
    /\ xmlResult = "none"
    /\ tree = NoTree
    /\ treeBefore = NoTree
    /\ emitted = <<>>

---------------------------------------------------------------------------
(* GoXLR::get_firmware_version: the decoding of the response *)

\* A u32 is kept as its two 16-bit halves: the model's integers are
\* 32-bit and signed.
U32(hi, lo) == [hi |-> hi, lo |-> lo]

\* u32 values the words of a response are drawn from: 0, 7, 0x1234,
\* 0x00ABCDEF, 0x80000000, 0xFFFFFFFF
WordValues ==
    {U32(0, 0), U32(0, 7), U32(0, 4660), U32(171, 52719), U32(32768, 0),
     U32(65535, 65535)}

\* Values of the two words the decoder reads and drops or copies
OtherWordValues == {U32(0, 0), U32(0, 1)}

\* Values of the two build words
BuildValues == {U32(0, 0), U32(0, 7)}

\* The four bytes of a u32 on the wire, least significant first
WireBytes(w) == <<w.lo % 256, w.lo \div 256, w.hi % 256, w.hi \div 256>>

\* Lengths at which a response is cut short, and one that is over-long
ResponseLens == {0, 3, 8, 23, 24, 28}

\* (mutant) cursor.read_u32::<BigEndian>()
read_u32_be(bytes, at) ==
    U32(bytes[at + 2] + 256 * bytes[at + 1], bytes[at + 4] + 256 * bytes[at + 3])

\* cursor.read_u32::<LittleEndian>() with the cursor at byte `at`
read_u32(bytes, at) ==
    U32(bytes[at + 3] + 256 * bytes[at + 4], bytes[at + 1] + 256 * bytes[at + 2])

\* x >> n on a u32
Shr(x, n) ==
    IF n >= 16
    THEN U32(0, x.hi \div (2 ^ (n - 16)))
    ELSE U32(x.hi \div (2 ^ n),
             (x.lo \div (2 ^ n)) + (x.hi % (2 ^ n)) * (2 ^ (16 - n)))

\* x & (2^bits - 1) on a u32, for the masks 0xF, 0xFF and 0xFFF
LowBits(x, bits) == U32(0, x.lo % (2 ^ bits))

NoVersions == [result |-> "none"]

\* The body of get_firmware_version after request_data returned `bytes`: six
\* u32 reads, each followed by `?`; a read past the end is an error.
get_firmware_version(bytes) ==
    IF Len(bytes) < 24 THEN [result |-> "Err"]
    ELSE LET firmware_packed == read_u32(bytes, 0)
             firmware_build == read_u32(bytes, 4)
             fpga_count == read_u32(bytes, 12)
             dice_build == read_u32(bytes, 16)
             dice_packed == read_u32(bytes, 20)
         IN [result |-> "Ok",
             firmware |-> <<Shr(firmware_packed, 12),
                            LowBits(Shr(firmware_packed, 8), 4),
                            LowBits(firmware_packed, 8),
                            firmware_build>>,
             fpga_count |-> fpga_count,
             dice |-> <<LowBits(Shr(dice_packed, 20), 4),
                        LowBits(Shr(dice_packed, 12), 8),
                        LowBits(dice_packed, 12),
                        dice_build>>]

\* Responses of the device to GetHardwareInfo(FirmwareVersion): six words,
\* cut short or followed by four more bytes.
Responses ==
    {SubSeq(WireBytes(fp) \o WireBytes(fb) \o WireBytes(u) \o WireBytes(c)
            \o WireBytes(db) \o WireBytes(dp) \o <<0, 0, 0, 0>>, 1, n) :
        fp \in WordValues, fb \in BuildValues, u \in OtherWordValues,
        c \in OtherWordValues, db \in BuildValues, dp \in WordValues,
        n \in ResponseLens}

\* request_data has returned a response to get_firmware_version.
VersionsInit ==
    /\ response \in Responses
    /\ versions = NoVersions

\* get_firmware_version decodes the response.
DecodeVersions ==
    /\ versions = NoVersions
    /\ versions' = get_firmware_version(response)
    /\ UNCHANGED response
    /\ UNCHANGED otherThanVersions

\* get_firmware_version has not been called.
VersionsIdle ==
    /\ response = <<>>
    /\ versions = NoVersions

---------------------------------------------------------------------------
(* find_devices: the enumeration of the attached GoXLRs *)

VID_GOXLR == 4640       \* 0x1220
PID_GOXLR_MINI == 36836 \* 0x8fe4
PID_GOXLR_FULL == 36832 \* 0x8fe0

\* Places a device can be attached at, most
MaxDevices == 3

\* The bus number and address of the device rusb lists at position k
BusOf(k) == 1 + (k \div 2)
AddressOf(k) == 1 + (k % 2)

\* What device_descriptor() gives for an attached device: an error, or a
\* descriptor with its vendor and product ids
Descriptors ==
    {[readable |-> FALSE, vendor_id |-> 0, product_id |-> 0]}
    \cup [readable : {TRUE},
          vendor_id : {VID_GOXLR, VID_GOXLR + 1},
          product_id : {PID_GOXLR_FULL, PID_GOXLR_MINI, PID_GOXLR_FULL + 1}]

\* The devices attached: a place is empty or holds a device
Attachments ==
    [0..(MaxDevices - 1) -> {[attached |-> FALSE]}
        \cup {[attached |-> TRUE, descriptor |-> d] : d \in Descriptors}]

\* (mutant) the product id is not looked at
find_devices_any_product(ok, listed) ==
    LET Found[k \in 0..MaxDevices] ==
            IF k = 0 THEN <<>>
            ELSE LET p == listed[k - 1]
                 IN IF p.attached /\ p.descriptor.readable
                       /\ p.descriptor.vendor_id = VID_GOXLR
                    THEN Append(Found[k - 1],
                                [bus_number |-> BusOf(k - 1), address |-> AddressOf(k - 1)])
                    ELSE Found[k - 1]
    IN IF ok THEN Found[MaxDevices] ELSE <<>>

\* find_devices(): when rusb::devices() is Ok, every listed device whose
\* descriptor is Ok and has the vendor id and one of the two product ids is
\* pushed with its bus number and address; the vector is returned.
find_devices(ok, listed) ==
    LET Found[k \in 0..MaxDevices] ==
            IF k = 0 THEN <<>>
            ELSE LET p == listed[k - 1]
                 IN IF p.attached /\ p.descriptor.readable
                       /\ p.descriptor.vendor_id = VID_GOXLR
                       /\ (p.descriptor.product_id = PID_GOXLR_FULL
                           \/ p.descriptor.product_id = PID_GOXLR_MINI)
                    THEN Append(Found[k - 1],
                                [bus_number |-> BusOf(k - 1), address |-> AddressOf(k - 1)])
                    ELSE Found[k - 1]
    IN IF ok THEN Found[MaxDevices] ELSE <<>>

\* The devices attached when find_devices is called, and whether
\* rusb::devices() can list them.
EnumerationInit ==
    /\ ports \in Attachments
    /\ devicesOk \in BOOLEAN
    /\ found = [returned |-> FALSE, devices |-> <<>>]

\* find_devices() returns.
FindDevices ==
    /\ ~found.returned
    /\ found' = [returned |-> TRUE, devices |-> find_devices(devicesOk, ports)]
    /\ UNCHANGED <<ports, devicesOk>>
    /\ UNCHANGED otherThanEnumeration

\* find_devices has not been called and nothing is attached.
EnumerationIdle ==
    /\ ports = [k \in 0..(MaxDevices - 1) |-> [attached |-> FALSE]]
    /\ devicesOk = TRUE
    /\ found = [returned |-> FALSE, devices |-> <<>>]

---------------------------------------------------------------------------
(* ProfileSettings::load: the elements whose name ends in a slot number *)

\* Last characters of an element name: the ten digits and a letter
LastChars == {"0", "1", "2", "3", "4", "5", "6", "7", "8", "9", "x"}

\* u8::from_str of one character: the digit, or -1 for the parse error
U8FromStr(c) ==
    CASE c = "0" -> 0 [] c = "1" -> 1 [] c = "2" -> 2 [] c = "3" -> 3
      [] c = "4" -> 4 [] c = "5" -> 5 [] c = "6" -> 6 [] c = "7" -> 7
      [] c = "8" -> 8 [] c = "9" -> 9 [] OTHER -> -1

\* Element names before the last character: the mute buttons, the faders,
\* the scribbles, and the presets of two of the seven effects (the other
\* five are handled by the same lines)
SlotPrefixes == {"mute", "FaderMeter", "scribble", "reverbEncoderpreset",
                 "genderEncoderpreset"}

\* Faders::iter() has four items, Preset::iter() six
FaderCount == 4
PresetCount == 6

\* id - 1 on a u8: with overflow checks 0 - 1 panics (-1 here), without
\* them it wraps to 255
U8MinusOne(id, checks) ==
    IF id = 0 THEN (IF checks THEN -1 ELSE 255) ELSE id - 1

\* What the Empty arm of load does with an element named prefix + c, when
\* the element's attributes parse: the slot it stores into, a skipped tag
\* ("Unhandled Tag"), the error it returns, or a panic.
\*   mute / scribble: id = u8::from_str(c)?; Faders::iter().nth(id - 1).unwrap()
\*   FaderMeter:      id = u8::from_str(c)?; Faders::iter().nth(id).unwrap()
\*   *preset:         if let Ok(preset) = parse_preset(name), where
\*                    parse_preset takes Preset::iter().nth((id - 1) as usize)
StoreSlotElement(prefix, c, checks) ==
    LET id == U8FromStr(c)
        Stored(map, slot) == [result |-> "Stored", map |-> map, slot |-> slot]
        Only(r) == [result |-> r, map |-> "none", slot |-> 0]
        nth == U8MinusOne(id, checks)
    IN IF prefix \in {"mute", "scribble"}
       THEN IF id = -1 THEN Only("Err")
            ELSE IF nth = -1 THEN Only("Abort")
            ELSE IF nth >= FaderCount THEN Only("Abort")
            ELSE Stored(IF prefix = "mute" THEN "mute_buttons" ELSE "scribbles", nth)
       ELSE IF prefix = "FaderMeter"
       THEN IF id = -1 THEN Only("Err")
            ELSE IF id >= FaderCount THEN Only("Abort")
            ELSE Stored("faders", id)
       ELSE IF id = -1 THEN Only("Skipped")
            ELSE IF nth = -1 THEN Only("Abort")
            ELSE IF nth >= PresetCount THEN Only("Skipped")
            ELSE Stored(prefix, nth + 1)

NoOutcome == [result |-> "none", map |-> "none", slot |-> 0]

\* The element load has come to, and whether the build checks overflow.
SlotsInit ==
    /\ slotTag \in [prefix : SlotPrefixes, last : LastChars, checks : BOOLEAN]
    /\ slotOutcome = NoOutcome

\* The Empty arm handles the element.
LoadSlotElement ==
    /\ slotOutcome = NoOutcome
    /\ slotOutcome' = StoreSlotElement(slotTag.prefix, slotTag.last, slotTag.checks)
    /\ UNCHANGED slotTag
    /\ UNCHANGED otherThanSlots

\* No element with a slot number has been read.
SlotsIdle ==
    /\ slotTag = [prefix |-> "mute", last |-> "1", checks |-> FALSE]
    /\ slotOutcome = NoOutcome

---------------------------------------------------------------------------
(* The facade verbs that decode a response body *)

\* Lengths of the response bodies handed to the verbs
BodyLens == {0, 1, 2, 4, 11, 12, 23, 24, 25}

\* Response bodies: every byte the same, 0 or 65
ResponseBodies == {[k \in 1..n |-> b] : n \in BodyLens, b \in {0, 65}}

DecodingVerbs ==
    {"get_serial_number", "get_button_states", "get_firmware_version",
     "get_microphone_level", "supports_dcp_category"}

\* iter().position(|&c| c == 0).unwrap_or(len) on the bytes from..to of result
ZeroPosition(result, from, to) ==
    LET zeros == {k \in from..to : result[k] = 0}
    IN IF zeros = {} THEN to - from + 1
       ELSE (CHOOSE k \in zeros : \A j \in zeros : k <= j) - from

\* What the verb does with the body request_data returned: slicing or
\* indexing past the end of the body panics, and so does
\* LittleEndian::read_u16 on fewer than two bytes; a Cursor read past the
\* end is an error.
\*   supports_dcp_category: Ok(LittleEndian::read_u16(&result) == 1)
\*   get_microphone_level:  Ok(LittleEndian::read_u16(&result))
\*   get_serial_number:     &result[..24], &result[24..]
\*   get_button_states:     &result[0..4], result[4] .. result[11]
DecodeBody(verb, result) ==
    LET Panic == [result |-> "Abort", value |-> <<>>]
        Ok(v) == [result |-> "Ok", value |-> v]
        n == Len(result)
    IN CASE verb = "supports_dcp_category" ->
              IF n < 2 THEN Panic
              ELSE Ok(<<IF result[1] + 256 * result[2] = 1 THEN 1 ELSE 0>>)
         [] verb = "get_microphone_level" ->
              IF n < 2 THEN Panic ELSE Ok(<<result[1] + 256 * result[2]>>)
         [] verb = "get_serial_number" ->
              IF n < 24 THEN Panic
              ELSE Ok(<<ZeroPosition(result, 1, 24), ZeroPosition(result, 25, n)>>)
         [] verb = "get_button_states" ->
              IF n < 4 THEN Panic
              ELSE IF n < 12 THEN Panic
              ELSE Ok(<<result[9], result[10], result[11], result[12]>>)
         [] verb = "get_firmware_version" ->
              [result |-> get_firmware_version(result).result, value |-> <<>>]

NoDecode == [result |-> "none", value |-> <<>>]

\* request_data has returned a body to one of the verbs.
FacadeInit ==
    /\ facadeCall \in [verb : DecodingVerbs, body : ResponseBodies]
    /\ facadeResult = NoDecode

\* The verb decodes the body.
FacadeDecode ==
    /\ facadeResult = NoDecode
    /\ facadeResult' = DecodeBody(facadeCall.verb, facadeCall.body)
    /\ UNCHANGED facadeCall
    /\ UNCHANGED otherThanFacade

\* No verb has been called.
FacadeIdle ==
    /\ facadeCall = [verb |-> "get_microphone_level", body |-> <<>>]
    /\ facadeResult = NoDecode

---------------------------------------------------------------------------
(* SettingsHandle: the per-device getters and setters *)

Serials == {"S1", "S2"}

\* Setter calls made at most
MaxSettingsCalls == 2

\* Option<T>: None or Some(v)
None == <<>>
Some(v) == <<v>>
UnwrapOr(o, d) == IF o = None THEN d ELSE o[1]

\* No entry for a serial in the devices map
NoEntry == [present |-> FALSE]

\* impl Default for DeviceSettings
DeviceSettingsDefault ==
    [present |-> TRUE,
     profile |-> "DEFAULT_PROFILE_NAME",
     mic_profile |-> "DEFAULT_MIC_PROFILE_NAME",
     hold_delay |-> Some(500),
     sampler_pre_buffer |-> None,
     chat_mute_mutes_mic_to_chat |-> Some(TRUE),
     lock_faders |-> Some(FALSE),
     enable_monitor_with_fx |-> Some(FALSE),
     shutdown_commands |-> <<>>]

\* The per-device getters, by the name of the field they read:
\* devices.get(serial).map(|d| d.<field>.unwrap_or(<default>)), and the
\* default again when there is no entry; the two names are Option<String>.
Getters ==
    {"profile", "mic_profile", "shutdown_commands", "sampler_pre_buffer",
     "hold_delay", "chat_mute_mutes_mic_to_chat", "lock_faders",
     "enable_monitor_with_fx"}

Get(field, map, serial) ==
    LET d == map[serial]
    IN CASE field = "profile" -> IF d.present THEN Some(d.profile) ELSE None
         [] field = "mic_profile" -> IF d.present THEN Some(d.mic_profile) ELSE None
         [] field = "shutdown_commands" ->
              IF d.present THEN d.shutdown_commands ELSE <<>>
         [] field = "sampler_pre_buffer" ->
              IF d.present THEN UnwrapOr(d.sampler_pre_buffer, 0) ELSE 0
         [] field = "hold_delay" ->
              IF d.present THEN UnwrapOr(d.hold_delay, 500) ELSE 500
         [] field = "chat_mute_mutes_mic_to_chat" ->
              IF d.present THEN UnwrapOr(d.chat_mute_mutes_mic_to_chat, TRUE) ELSE TRUE
         [] field = "lock_faders" ->
              IF d.present THEN UnwrapOr(d.lock_faders, TRUE) ELSE TRUE
         [] field = "enable_monitor_with_fx" ->
              IF d.present THEN UnwrapOr(d.enable_monitor_with_fx, FALSE) ELSE FALSE

\* The arguments a setter is called with, by the field it assigns
SetterValues(field) ==
    CASE field = "profile" -> {"Stream"}
      [] field = "mic_profile" -> {"Podcast"}
      [] field = "shutdown_commands" -> {<<"SetVolume">>}
      [] field \in {"sampler_pre_buffer", "hold_delay"} -> {Some(0), Some(1000)}
      [] OTHER -> {Some(TRUE), Some(FALSE)}

\* A setter: entry(serial).or_insert_with(DeviceSettings::default), then the
\* assignment of the one field.
SetField(map, serial, field, value) ==
    LET entry == IF map[serial].present THEN map[serial] ELSE DeviceSettingsDefault
    IN [map EXCEPT ![serial] =
          CASE field = "profile" -> [entry EXCEPT !.profile = value]
            [] field = "mic_profile" -> [entry EXCEPT !.mic_profile = value]
            [] field = "shutdown_commands" -> [entry EXCEPT !.shutdown_commands = value]
            [] field = "sampler_pre_buffer" -> [entry EXCEPT !.sampler_pre_buffer = value]
            [] field = "hold_delay" -> [entry EXCEPT !.hold_delay = value]
            [] field = "chat_mute_mutes_mic_to_chat" ->
                 [entry EXCEPT !.chat_mute_mutes_mic_to_chat = value]
            [] field = "lock_faders" -> [entry EXCEPT !.lock_faders = value]
            [] field = "enable_monitor_with_fx" ->
                 [entry EXCEPT !.enable_monitor_with_fx = value]]

NoSettingsCall == [field |-> "none", serial |-> "none"]

\* One of the eight setters is called for a serial.
SettingsSet ==
    /\ settingsCalls < MaxSettingsCalls
    /\ \E serial \in Serials, field \in Getters :
         \E value \in SetterValues(field) :
            /\ devices' = SetField(devices, serial, field, value)
            /\ settingsCall' = [field |-> field, serial |-> serial]
    /\ devicesBefore' = devices
    /\ settingsCalls' = settingsCalls + 1
    /\ UNCHANGED otherThanSettings

\* Settings as the daemon makes them when there is no file: devices is
\* Some(empty map).
SettingsIdle ==
    /\ devices = [s \in Serials |-> NoEntry]
    /\ devicesBefore = [s \in Serials |-> NoEntry]
    /\ settingsCall = NoSettingsCall
    /\ settingsCalls = 0

---------------------------------------------------------------------------

\* A handle that has not been constructed yet has no framer state.
FramerInit ==
    /\ command_count = ConstructedCount
    /\ stack = <<>>
    /\ pipe = <<>>
    /\ lastRet = NoRet
    /\ txlog = <<>>
    /\ prevTx = "none"
    /\ calls = 0

\* Before from_device runs.
FreshInit ==
    /\ impl \in {"usb", "legacy"}
    /\ apc = "open"
    /\ device_is_claimed = FALSE
    /\ claimed = FALSE
    /\ autoDetach = FALSE
    /\ usblog = <<>>
    /\ attachResult = "none"
    /\ FramerInit

\* A GoXLRUSB handle that attached without recovery and has since completed n
\* set_volume(0, 255) verbs against a responsive device, n = u16::MAX - 1 or
\* u16::MAX: every one of them incremented command_count by one.  (A legacy
\* handle never gets there: its counter is reset before every command.)
InServiceCounts == {U16Max - 1, U16Max}

InServiceInit ==
    /\ impl = "usb"
    /\ apc = "attached"
    /\ device_is_claimed = TRUE
    /\ claimed = TRUE
    /\ autoDetach = FALSE
    /\ usblog = <<"set_active_configuration", "claim_interface", "probe",
                  "read_control_3_1040">>
    /\ attachResult = "Ok"
    /\ command_count \in InServiceCounts
    /\ stack = <<>>
    /\ pipe = <<>>
    /\ LET cmd == SetVolumeCommand(0, 255)
           f == [Frame(cmd, RequestDataRetry, "verb") EXCEPT
                    !.entry = command_count - 1, !.idx = command_count, !.i = 1]
       IN /\ lastRet = [Ret(f, "Ok", "none", TRUE,
                            [idx |-> command_count, cur |-> TRUE, short |-> FALSE])
                        EXCEPT !.lastTx = [role |-> "verb", idx |-> command_count]]
          /\ txlog = <<[cmd |-> cmd.name, idx |-> command_count, sub |-> cmd.sub,
                        entry |-> command_count - 1, retry |-> FALSE,
                        role |-> "verb", after |-> cmd.name, ok |-> TRUE,
                        body |-> cmd.body,
                        bytes |-> FullRequest(cmd, command_count)]>>
    /\ prevTx = "SetChannelVolume"
    /\ calls = 0

Init ==
    /\ build \in {"debug", "release"}
    /\ \/ FreshInit
       \/ InServiceInit
    /\ ProfileIdle
    /\ FilesIdle
    /\ ReverbIdle
    /\ XmlIdle
    /\ LinksIdle
    /\ VersionsIdle
    /\ EnumerationIdle
    /\ SlotsIdle
    /\ FacadeIdle
    /\ SettingsIdle

Next ==
    \/ AttachOpen
    \/ AttachProbe
    \/ AttachRelease1
    \/ AttachAutoDetach
    \/ AttachClaim2
    \/ AttachActivate
    \/ AttachAudio
    \/ AttachRelease2
    \/ AttachReset
    \/ AttachReprobe
    \/ AttachSleep
    \/ AttachFlush
    \/ CallVerb
    \/ IsConnectedUnreadable
    \/ Enter
    \/ AfterWrapReset
    \/ Transmit
    \/ Poll
    \/ AfterResyncReset
    \/ AfterRetry

Spec == Init /\ [][Next]_vars

\* No device is open while a profile is saved and loaded.
DeviceIdle ==
    /\ impl = "usb"
    /\ build = "release"
    /\ FreshInit

InitProfile ==
    /\ DeviceIdle
    /\ ProfileLoaded
    /\ FilesIdle
    /\ ReverbIdle
    /\ XmlIdle
    /\ LinksIdle
    /\ VersionsIdle
    /\ EnumerationIdle
    /\ SlotsIdle
    /\ FacadeIdle
    /\ SettingsIdle

NextProfile ==
    \/ WriteTo
    \/ ArchiveScribbles
    \/ Load

SpecProfile == InitProfile /\ [][NextProfile]_vars

InitFiles ==
    /\ DeviceIdle
    /\ ProfileIdle
    /\ FilesInit
    /\ ReverbIdle
    /\ XmlIdle
    /\ LinksIdle
    /\ VersionsIdle
    /\ EnumerationIdle
    /\ SlotsIdle
    /\ FacadeIdle
    /\ SettingsIdle

NextFiles ==
    \/ SaveMakeDir
    \/ SaveCreateTemp
    \/ SaveSerialise
    \/ SaveSync
    \/ SaveCopyOpen
    \/ SaveCopyBlock
    \/ SaveRemoveTemp
    \/ SaveInterrupted
    \/ ReadDestination

SpecFiles == InitFiles /\ [][NextFiles]_vars

\* A preset as ReverbEncoder::new() makes it, before any setter is called.
InitReverb ==
    /\ DeviceIdle
    /\ ProfileIdle
    /\ FilesIdle
    /\ ReverbIdle
    /\ XmlIdle
    /\ LinksIdle
    /\ VersionsIdle
    /\ EnumerationIdle
    /\ SlotsIdle
    /\ FacadeIdle
    /\ SettingsIdle

NextReverb ==
    \/ ReverbSet
    \/ ReverbSetStyle
    \/ ReverbParse

SpecReverb == InitReverb /\ [][NextReverb]_vars

InitXml ==
    /\ DeviceIdle
    /\ ProfileIdle
    /\ FilesIdle
    /\ ReverbIdle
    /\ XmlIdle
    /\ LinksIdle
    /\ VersionsIdle
    /\ EnumerationIdle
    /\ SlotsIdle
    /\ FacadeIdle
    /\ SettingsIdle

NextXml ==
    \/ LoadDocument
    \/ LoadPreset
    \/ WriteElements

SpecXml == InitXml /\ [][NextXml]_vars

InitLinks ==
    /\ DeviceIdle
    /\ ProfileIdle
    /\ FilesIdle
    /\ ReverbIdle
    /\ XmlIdle
    /\ LinksIdle
    /\ VersionsIdle
    /\ EnumerationIdle
    /\ SlotsIdle
    /\ FacadeIdle
    /\ SettingsIdle

NextLinks ==
    \/ LinkParse
    \/ LinkSetRatio

SpecLinks == InitLinks /\ [][NextLinks]_vars

InitVersions ==
    /\ DeviceIdle
    /\ ProfileIdle
    /\ FilesIdle
    /\ ReverbIdle
    /\ XmlIdle
    /\ LinksIdle
    /\ VersionsInit
    /\ EnumerationIdle
    /\ SlotsIdle
    /\ FacadeIdle
    /\ SettingsIdle

NextVersions ==
    \/ DecodeVersions

SpecVersions == InitVersions /\ [][NextVersions]_vars

InitEnumeration ==
    /\ DeviceIdle
    /\ ProfileIdle
    /\ FilesIdle
    /\ ReverbIdle
    /\ XmlIdle
    /\ LinksIdle
    /\ VersionsIdle
    /\ EnumerationInit
    /\ SlotsIdle
    /\ FacadeIdle
    /\ SettingsIdle

NextEnumeration ==
    \/ FindDevices

SpecEnumeration == InitEnumeration /\ [][NextEnumeration]_vars

InitSlots ==
    /\ DeviceIdle
    /\ ProfileIdle
    /\ FilesIdle
    /\ ReverbIdle
    /\ XmlIdle
    /\ LinksIdle
    /\ VersionsIdle
    /\ EnumerationIdle
    /\ SlotsInit
    /\ FacadeIdle
    /\ SettingsIdle

NextSlots ==
    \/ LoadSlotElement

SpecSlots == InitSlots /\ [][NextSlots]_vars

InitFacade ==
    /\ DeviceIdle
    /\ ProfileIdle
    /\ FilesIdle
    /\ ReverbIdle
    /\ XmlIdle
    /\ LinksIdle
    /\ VersionsIdle
    /\ EnumerationIdle
    /\ SlotsIdle
    /\ FacadeInit
    /\ SettingsIdle

NextFacade ==
    \/ FacadeDecode

SpecFacade == InitFacade /\ [][NextFacade]_vars

InitSettings ==
    /\ DeviceIdle
    /\ ProfileIdle
    /\ FilesIdle
    /\ ReverbIdle
    /\ XmlIdle
    /\ LinksIdle
    /\ VersionsIdle
    /\ EnumerationIdle
    /\ SlotsIdle
    /\ FacadeIdle
    /\ SettingsIdle

NextSettings ==
    \/ SettingsSet

SpecSettings == InitSettings /\ [][NextSettings]_vars

NextDecay ==
    \/ DecayMillisSet
    \/ DecayMillisRoundTrip

SpecDecay == InitReverb /\ [][NextDecay]_vars

---------------------------------------------------------------------------
(* Properties *)

IsReset(name) == name = "ResetCommandIndex"
Returned == lastRet.kind # "none"
IsPrefix(a, b) == Len(a) <= Len(b) /\ a = SubSeq(b, 1, Len(a))
TxCount(roles) == Cardinality({k \in 1..Len(txlog) : txlog[k].role \in roles})

\* C1: whenever an invocation of the framer returns Ok with the body of a
\* response frame it read, that frame's command_index equals the
\* command_index of the request frame the invocation wrote.
C1_ReturnedIndexMatches ==
    (lastRet.kind = "Ok" /\ lastRet.read) => lastRet.resp.idx = lastRet.idx

\* C2: no non-reset frame carries index 0, the counter increment never
\* overflows, and a non-reset command entered with the counter at u16::MAX is
\* transmitted with index 1 right after a ResetCommandIndex frame.
C2_NoZeroIndexNoWrap ==
    /\ lastRet.err # "overflow"
    /\ \A k \in 1..Len(stack) :
         (~IsReset(stack[k].cmd.name) /\ stack[k].pc \in {"write", "poll"})
            => stack[k].idx \in 1..U16Max
    /\ \A k \in 1..Len(txlog) :
         ~IsReset(txlog[k].cmd) =>
            /\ txlog[k].idx \in 1..U16Max
            /\ txlog[k].entry = U16Max =>
                 /\ txlog[k].idx = 1
                 /\ k > 1
                 /\ IsReset(txlog[k - 1].cmd)

C2_Witness ==
    \E k \in 1..Len(txlog) :
        /\ ~IsReset(txlog[k].cmd)
        /\ txlog[k].entry = U16Max
        /\ txlog[k].idx = 1
        /\ txlog[k].role = "verb"

\* C3: every ResetCommandIndex frame carries index 0, and a non-reset frame
\* that is the first frame handed to the device after a ResetCommandIndex
\* frame carries index 1.
C3_IndexOneAfterReset ==
    \A k \in 1..Len(txlog) :
        /\ IsReset(txlog[k].cmd) => txlog[k].idx = 0
        /\ (~IsReset(txlog[k].cmd) /\ IsReset(txlog[k].after)) => txlog[k].idx = 1

C3_Witness ==
    /\ \E k \in 1..Len(txlog) :
         /\ txlog[k].role = "verbRetry"
         /\ ~IsReset(txlog[k].cmd)
         /\ IsReset(txlog[k].after)
         /\ txlog[k].idx = 1
    /\ \E k \in 1..Len(txlog) : IsReset(txlog[k].cmd) /\ txlog[k].idx = 0

\* C4: after a mismatch seen by an invocation that is not a retry, the framer
\* hands the device one ResetCommandIndex and then the original command once
\* more, in that order and nothing else; a call that returns Ok after a
\* mismatch returns what the retransmission read; a mismatch seen by the reset
\* or by the retransmission ends the call with error Other and nothing
\* further is transmitted; the verb's own command is transmitted at most twice.
ResyncPlan(name) == <<"ResetCommandIndex", name>>

C4_OneResyncOneRetry ==
    /\ \A k \in 1..Len(stack) :
         LET f == stack[k] IN
           /\ IsPrefix(f.resync, ResyncPlan(f.cmd.name))
           /\ f.resync # <<>> => (f.mism /\ ~f.retry)
           /\ f.pc = "resyncWait" => Len(f.resync) <= 1
           /\ f.pc = "retryWait" => Len(f.resync) >= 1
           /\ f.retry => (k > 1 /\ ~stack[k - 1].retry
                           /\ stack[k - 1].pc \in {"resyncWait", "retryWait"})
    /\ Returned =>
         /\ IsPrefix(lastRet.resync, ResyncPlan(lastRet.cmd))
         /\ (lastRet.mism /\ ~lastRet.retry /\ lastRet.kind # "Panic" /\ impl = "usb") =>
              /\ Len(lastRet.resync) >= 1
              /\ Len(lastRet.resync) = 1 =>
                   (lastRet.kind = "Err" /\ lastRet.via = "resync")
              /\ lastRet.kind = "Ok" =>
                   /\ lastRet.resync = ResyncPlan(lastRet.cmd)
                   /\ lastRet.via = "retry"
                   /\ lastRet.lastTx.role \in {"verbRetry", "nestedRetry"}
                   /\ lastRet.idx = lastRet.lastTx.idx
                   /\ lastRet.read => (lastRet.resp.idx = lastRet.idx)
         /\ (lastRet.retry /\ lastRet.mism) =>
              (lastRet.kind = "Err" /\ lastRet.err = "Other")
         /\ (lastRet.err = "Other") =>
              /\ lastRet.kind = "Err"
              /\ lastRet.mism
              /\ lastRet.via = "resync" =>
                   (lastRet.resync = <<"ResetCommandIndex">>
                    /\ lastRet.lastTx.role \in {"verbResync", "nestedResync"})
              /\ lastRet.via = "retry" =>
                   (lastRet.resync = ResyncPlan(lastRet.cmd)
                    /\ lastRet.lastTx.role \in {"verbRetry", "nestedRetry"})
    /\ TxCount({"verb"}) <= 1
    /\ TxCount({"verbResync"}) <= 1
    /\ TxCount({"verbRetry"}) <= 1
    /\ \A j, k \in 1..Len(txlog) :
         (txlog[j].role = "verb" /\ txlog[k].role = "verbRetry") =>
            /\ j < k
            /\ txlog[j].cmd = txlog[k].cmd
            /\ txlog[j].sub = txlog[k].sub
            /\ txlog[j].body = txlog[k].body

C4_Witness ==
    /\ stack = <<>>
    /\ lastRet.kind = "Ok"
    /\ lastRet.mism
    /\ lastRet.via = "retry"
    /\ lastRet.read
    /\ lastRet.role = "verb"
    /\ ~IsReset(lastRet.cmd)
    /\ TxCount({"verb", "verbRetry"}) = 2

\* C5: a transmitted frame is polled for at most 20 times, and a call never
\* returns Ok without having read a response frame (20 polls that all return
\* Pipe end in an error).
C5_PipeExhaustionIsAnError ==
    /\ \A k \in 1..Len(stack) : stack[k].i < PollLimit
    /\ lastRet.kind = "Ok" => lastRet.read

\* C6: every body perform_request returns was produced by the device in
\* answer to the very transmission whose poll read it, never to an earlier
\* transmission (is_connected's ResetCommandIndex included).
C6_NoStaleResponseAccepted ==
    (impl = "usb" /\ lastRet.kind = "Ok" /\ lastRet.read) => lastRet.resp.cur

\* C7: a response shorter than a header makes the request return an error
\* value; the framer does not abort on it.
C7_ShortFrameIsAnError ==
    lastRet.resp.short => lastRet.kind = "Err"

\* C8: every frame handed to the device is 16 + N bytes: command_id in bytes
\* 0..4, N in bytes 4..6, command_index in bytes 6..8, all little-endian,
\* zeros in bytes 8..16, then the body unchanged; set_fader sends the 4-byte
\* body [channel, 0, 0, 0] and set_volume the 1-byte body [volume].
C8_FrameLayout ==
    \A k \in 1..Len(txlog) :
        LET e == txlog[k]
            b == e.bytes
            n == Len(e.body)
        IN /\ Len(b) = 16 + n
           /\ \A j \in 1..Len(b) : b[j] \in 0..255
           /\ b[1] + 256 * b[2] + 65536 * b[3] + 16777216 * b[4]
                = CommandId([name |-> e.cmd, sub |-> e.sub])
           /\ b[5] + 256 * b[6] = n
           /\ b[7] + 256 * b[8] = e.idx
           /\ \A j \in 9..16 : b[j] = 0
           /\ SubSeq(b, 17, Len(b)) = e.body
           /\ e.cmd = "SetFader" =>
                (n = 4 /\ e.body[1] \in Channels
                 /\ e.body[2] = 0 /\ e.body[3] = 0 /\ e.body[4] = 0)
           /\ e.cmd = "SetChannelVolume" => (n = 1 /\ e.body[1] \in Volumes)
           /\ e.cmd = "ResetCommandIndex" => n = 0

C8_Witness ==
    \E k \in 1..Len(txlog) :
        /\ txlog[k].cmd = "SetFader"
        /\ txlog[k].idx = 2
        /\ txlog[k].bytes = <<3, 80, 128, 0, 4, 0, 2, 0, 0, 0, 0, 0, 0, 0, 0, 0,
                              1, 0, 0, 0>>

\* The USB operations from_device performed after the first probe, the final
\* flush read left out.
RecoverySteps ==
    SelectSeq(SubSeq(usblog, 4, Len(usblog)), LAMBDA x : x # "read_control_3_1040")

ProbeCount == Cardinality({k \in 1..Len(usblog) : usblog[k] = "probe"})

SecondProbeSucceeded ==
    /\ ProbeCount = 2
    /\ ~(apc = "failed" /\ usblog[Len(usblog)] = "probe")

ClaimedOrder ==
    <<"release_interface", "set_auto_detach_kernel_driver", "claim_interface",
      "read_control_0_24", "write_class_control", "release_interface",
      "reset", "sleep_1s", "probe">>

CodeOrder ==
    <<"release_interface", "set_auto_detach_kernel_driver", "claim_interface",
      "read_control_0_24", "write_class_control", "release_interface",
      "reset", "probe", "sleep_1s">>

\* C10 as claimed: the recovery steps are performed in the claimed order, the
\* 1-second sleep before the second probe (a handle that never held the
\* interface has nothing to release first).
C10_SleepBeforeReprobe ==
    \/ IsPrefix(RecoverySteps, ClaimedOrder)
    \/ ~device_is_claimed /\ IsPrefix(RecoverySteps, Tail(ClaimedOrder))

\* C10 as amended: GoXLRUSB::from_device releases the interface (only if the
\* first claim succeeded), enables auto-detach, re-claims, reads request 0,
\* writes the class request, releases, resets, probes again and only then
\* sleeps; a handle is returned after a Pipe probe only when all of them were
\* performed.  The legacy from_device stops after the second release with
\* DeviceNeedsReboot.
C10_ReprobeBeforeSleep ==
    /\ impl = "usb" =>
         /\ IF device_is_claimed
            THEN IsPrefix(RecoverySteps, CodeOrder)
            ELSE IsPrefix(RecoverySteps, Tail(CodeOrder))
         /\ (RecoverySteps # <<>> /\ apc \in {"flush", "attached"}) =>
              Len(RecoverySteps) = Len(CodeOrder) - (IF device_is_claimed THEN 0 ELSE 1)
         /\ apc = "sleep" => RecoverySteps[Len(RecoverySteps)] = "probe"
    /\ impl = "legacy" =>
         /\ IsPrefix(RecoverySteps, SubSeq(CodeOrder, 1, 6))
         /\ RecoverySteps # <<>> => apc # "attached"
         /\ attachResult = "DeviceNeedsReboot" => Len(RecoverySteps) = 6

C10_Witness ==
    /\ impl = "usb"
    /\ apc = "attached"
    /\ RecoverySteps = CodeOrder

\* C11: a re-probe that still returns Pipe after the recovery makes from_device
\* fail with DeviceNeedsReboot (never with the raw Pipe error), no handle is
\* returned, and DeviceNeedsReboot is produced only by a failed re-probe.
C11_NeedsRebootIffReprobePipe ==
    /\ attachResult # "UsbPipe"
    /\ attachResult \in {"UsbPipe", "DeviceNeedsReboot"} => apc = "failed"
    /\ attachResult = "DeviceNeedsReboot" =>
         (ProbeCount = 2 /\ usblog[Len(usblog)] = "probe")

\* C12: every handle from_device returns holds interface 0.
C12_ReturnedHandleHoldsInterface ==
    apc = "attached" => claimed

HeadphonesColumn(table) == [i \in InputChannels |-> table[i]["Headphones"]]

\* C13: after write_to returns Ok the in-memory monitored_output and
\* headphone_mix are what they were before the call.
C13_MonitorFieldsRestored ==
    writeResult = "Ok" =>
        /\ settings.monitored_output = preSave.monitored_output
        /\ settings.headphone_mix = preSave.headphone_mix

C13_Witness ==
    /\ writeResult = "Ok"
    /\ preSave.monitored_output = "StreamMix"
    /\ preSave.headphone_mix = "B"
    /\ settings.monitored_output = "StreamMix"
    /\ document.monitor # <<>>
    /\ document.monitor[1].monitored_output = "Headphones"

\* C14: when a writer fails while the monitored output is not Headphones,
\* write_to returns the error with monitored_output, headphone_mix and the
\* Headphones column of the mixer table as they were before the call.
C14_RestoredOnError ==
    (writeResult = "Err" /\ preSave.monitored_output # "Headphones") =>
        /\ settings.monitored_output = preSave.monitored_output
        /\ settings.headphone_mix = preSave.headphone_mix
        /\ HeadphonesColumn(settings.mixer_table) = HeadphonesColumn(preSave.mixer_table)

\* C15 as claimed: every emitted monitor tree records Headphones and Mix A,
\* and the Headphones column of the emitted mixer table is the monitor tree's
\* routing snapshot, whatever was in memory before the save.
C15_AlwaysHeadphonesMixA ==
    /\ document.monitor # <<>> =>
         /\ document.monitor[1].monitored_output = "Headphones"
         /\ document.monitor[1].headphone_mix = "A"
    /\ (document.monitor # <<>> /\ document.mixer # <<>>) =>
         HeadphonesColumn(document.mixer[1]) = document.monitor[1].routing

\* C15 as amended: when the monitored output before the save is not
\* Headphones, the emitted monitor tree records Headphones and Mix A and the
\* emitted Headphones column is the routing snapshot; when it is Headphones,
\* the monitor tree and the mixer table are emitted as they are in memory.
C15_RewrittenUnlessHeadphones ==
    /\ document.monitor # <<>> =>
         /\ document.monitor[1].monitored_output = "Headphones"
         /\ document.monitor[1].routing = preSave.routing
         /\ document.monitor[1].headphone_mix =
              (IF preSave.monitored_output # "Headphones" THEN "A"
               ELSE preSave.headphone_mix)
    /\ document.mixer # <<>> =>
         /\ \A i \in InputChannels : \A o \in OutputChannels \ {"Headphones"} :
              document.mixer[1][i][o] = preSave.mixer_table[i][o]
         /\ HeadphonesColumn(document.mixer[1]) =
              (IF preSave.monitored_output # "Headphones" THEN preSave.routing
               ELSE HeadphonesColumn(preSave.mixer_table))

C15_Witness ==
    /\ writeResult = "Ok"
    /\ preSave.monitored_output = "StreamMix"
    /\ preSave.headphone_mix = "B"
    /\ HeadphonesColumn(preSave.mixer_table) # preSave.routing
    /\ document.monitor[1].headphone_mix = "A"
    /\ HeadphonesColumn(document.mixer[1]) = preSave.routing

\* C16: after a successful save every entry of the in-memory mixer table,
\* the Headphones column included, is what it was before the call.
C16_MixerTableUnchanged ==
    writeResult = "Ok" => settings.mixer_table = preSave.mixer_table

WholeFiles == {OldFile, NewFile}

\* C18: the destination is touched only once the temporary file holds the
\* whole new contents and has been synced; a save that fails or is
\* interrupted before the final copy leaves the destination as it was.
C18_DestinationWrittenAfterSync ==
    /\ dest # OldFile => (temp = NewFile /\ tempSynced)
    /\ (fileResult \in {"Err", "Interrupted"}
        /\ fileFailedAt \in {"mkdir", "temp", "serialise", "sync"}) => dest = OldFile

C18_Witness ==
    /\ fkind = "settings"
    /\ fileResult = "Err"
    /\ fileFailedAt = "sync"
    /\ temp = NewFile
    /\ dest = OldFile

\* C19: a reader of the destination sees the whole old file or the whole new
\* file, during a save and after one that failed or was interrupted at any
\* step, the final copy included.
C19_ReaderSeesWholeFile ==
    /\ observed \in WholeFiles
    /\ fileResult \in {"Err", "Interrupted"} => dest \in WholeFiles

\* The range each reverb setter documents for its argument
DocumentedRange(name) ==
    CASE name = "set_knob_position"     -> 0..24
      [] name = "set_percentage_amount" -> 0..100
      [] name = "set_decay_millis"      -> 0..20000
      [] name = "set_predelay"          -> 0..100
      [] name \in {"set_diffuse", "set_low_color", "set_hi_color"} -> (-50)..50
      [] name \in {"set_hi_factor", "set_mod_speed", "set_mod_depth"} -> (-25)..25
      [] name \in {"set_early_level", "set_tail_level"} -> (-25)..0

\* C20: a reverb setter called with an argument outside its documented range
\* returns an error and leaves every field of the preset as it was;
\* set_predelay's error message contains "between 0 and 100".
C20_OutOfRangeRejected ==
    (/\ setterCall.name \in I8Setters \cup U8Setters \cup U16Setters
     /\ setterCall.value \notin DocumentedRange(setterCall.name)) =>
        /\ setterResult \notin {"none", "Ok"}
        /\ preset = presetBefore
        /\ setterCall.name = "set_predelay" =>
             setterResult = "Predelay must be between 0 and 100ms"

C20_Witness ==
    /\ sets = 2
    /\ setterCall = [name |-> "set_predelay", value |-> 150]
    /\ setterResult = "Predelay must be between 0 and 100ms"
    /\ presetBefore.pre_delay = 50
    /\ preset.pre_delay = 50

\* C21: whatever was parsed and whichever setters ran, every parameter of the
\* preset lies in its documented range.
C21_PresetInRange ==
    /\ preset.decay \in 0..290
    /\ preset.pre_delay \in 0..100
    /\ preset.diffuse \in (-50)..50
    /\ preset.low_color \in (-50)..50
    /\ preset.high_color \in (-50)..50
    /\ preset.high_factor \in (-25)..25
    /\ preset.mod_speed \in (-25)..25
    /\ preset.mod_depth \in (-25)..25
    /\ preset.early_level \in (-25)..0
    /\ preset.tail_level \in (-25)..0
    /\ preset.knob_position \in 0..24

\* The attributes parse_reverb_preset recognises
RecognisedReverbAttributes ==
    DOMAIN ReverbAttributes \cup {"REVERB_STYLE", "REVERB_KNOB_POSITION"}

\* A text that is not a value of the attribute: no number for a numeric
\* attribute, no uiIndex of a style for REVERB_STYLE
Malformed(a) ==
    IF a.name = "REVERB_STYLE"
    THEN a.value \notin {"0", "1", "2", "3", "4", "5"}
    ELSE a.value \notin {"3", "-5", "500"}

\* C23: a preset element with a malformed value in a recognised attribute
\* fails to parse; an element whose only fault is an unknown attribute parses.
C23_MalformedFailsUnknownIgnored ==
    attributes # <<>> =>
        /\ (\E i \in 1..Len(attributes) :
               /\ attributes[i].name \in RecognisedReverbAttributes
               /\ Malformed(attributes[i]))
           => setterResult # "Ok"
        /\ (\A i \in 1..Len(attributes) :
               attributes[i].name \notin RecognisedReverbAttributes)
           => setterResult = "Ok"

\* C27: set_style returns Ok and leaves the style's row of the frozen table in
\* the preset, whatever was there before; knob_position and dry_level stay.
C27_StyleOverwritesFromTable ==
    setterCall.name = "set_style" =>
        LET style == ReverbStyle[setterCall.value + 1]
            row == get_preset(style)
        IN /\ setterResult = "Ok"
           /\ preset.style = style
           /\ \A f \in DOMAIN row : preset[f] = row[f]
           /\ preset.knob_position = presetBefore.knob_position
           /\ preset.dry_level = presetBefore.dry_level
           /\ style = "RealPlate" =>
                /\ preset.decay = 115 /\ preset.pre_delay = 15
                /\ preset.diffuse = 0 /\ preset.low_color = 21
                /\ preset.high_color = -17 /\ preset.high_factor = -22
                /\ preset.mod_speed = -3 /\ preset.mod_depth = 8
                /\ preset.early_level = 0 /\ preset.tail_level = 0

C27_Witness ==
    /\ setterCall = [name |-> "set_style", value |-> 3]
    /\ attributes = <<[name |-> "REVERB_DECAY", value |-> "500"]>>
    /\ presetBefore.decay = 500
    /\ preset.decay = 115
    /\ preset.style = "RealPlate"

\* The bank whose start element is open at position i of the document: the
\* latest bank start before i with no end element between it and i.
OpenBank(doc, i) ==
    LET starts == {j \in 1..(i - 1) :
                     /\ doc[j].kind = "Start" /\ doc[j].name \in Banks
                     /\ \A k \in (j + 1)..(i - 1) : doc[k].kind # "End"}
    IN IF starts = {} THEN "None" ELSE doc[CHOOSE j \in starts : TRUE].name

\* C22: after a load, a sampleStack leaf is held by a bank only if that bank's
\* start element was open where the leaf stood; a leaf outside every bank is
\* held by none.
C22_StackOnlyInOpenBank ==
    (xmlOp = "load" /\ xmlResult = "Ok") =>
        \A b \in Banks : \A k \in 1..Len(tree.sampler_map[b].stacks) :
            OpenBank(xmlDoc, tree.sampler_map[b].stacks[k]) = b

\* C24: a load of a document whose ValueTreeRoot carries a version above 3
\* fails and leaves no ProfileSettings; with a version of 3 or below the load
\* passes the gate.
C24_VersionGate ==
    xmlOp = "load" =>
        \A i \in 1..Len(xmlDoc) :
            xmlDoc[i].name = "ValueTreeRoot" =>
                IF xmlDoc[i].version > 3
                THEN xmlResult = "Err" /\ tree = NoTree
                ELSE xmlResult = "Ok" /\ tree.present

\* C25: an import changes nothing but the selected slot of each effect and
\* the selected effects group; and an import whose root element has no name
\* attribute fails.
C25_ImportOnlySelectedSlot ==
    xmlOp = "load_preset" =>
        /\ \A e \in Range(EffectElements) : \A q \in Presets \ {treeBefore.selected_effects} :
               tree.presets[e][q] = treeBefore.presets[e][q]
        /\ \A q \in Presets \ {treeBefore.selected_effects} :
               tree.effects[q] = treeBefore.effects[q]
        /\ tree.selected_effects = treeBefore.selected_effects
        /\ tree.version = treeBefore.version
        /\ tree.sampler_map = treeBefore.sampler_map
        /\ (\E i \in 1..Len(xmlDoc) : xmlDoc[i].name = "preset" /\ ~xmlDoc[i].ok)
           => xmlResult = "Err"

\* The order of elements as the specification lists it
ListedOrder ==
    <<"ValueTreeRoot", "browserPreviewTree", "animationTree", "mixRoutingTree",
      "submixerTree", "mixerTree", "selectedContext", "muteChat",
      "mute1", "mute2", "mute3", "mute4",
      "FaderMeter0", "FaderMeter1", "FaderMeter2", "FaderMeter3",
      "effects1", "effects2", "effects3", "effects4", "effects5", "effects6",
      "scribble1", "scribble2", "scribble3", "scribble4",
      "megaphoneEffect", "robotEffect", "hardtuneEffect", "reverbEncoder",
      "echoEncoder", "pitchEncoder", "genderEncoder",
      "sampleTopLeft", "sampleClear", "sampleBankA", "fxClear", "/ValueTreeRoot">>

\* C26: whatever the profile holds and wherever write_to stops, the elements
\* it has emitted stand in the listed order: each is listed, and none comes
\* before one that precedes it in the list.
C26_FixedWriteOrder ==
    xmlOp = "write_to" =>
        LET Place(name) == CHOOSE k \in 1..Len(ListedOrder) : ListedOrder[k] = name
        IN /\ \A i \in 1..Len(emitted) : emitted[i] \in Range(ListedOrder)
           /\ \A i, j \in 1..Len(emitted) :
                  i < j => Place(emitted[i]) < Place(emitted[j])

C26_Witness ==
    /\ xmlOp = "write_to"
    /\ xmlResult = "Ok"
    /\ emitted = ListedOrder

\* What get_ratio reports for every stored ratio, and what set_link_ratio
\* returns for the two sentinels
RatioSentinels ==
    /\ \A c \in InputChannels :
          /\ get_ratio(linked_ratio, c) \notin {"0", "-0", "inf"}
          /\ linked_ratio[c] \in {"0", "-0"} => get_ratio(linked_ratio, c) = "1/255"
          /\ linked_ratio[c] = "inf" => get_ratio(linked_ratio, c) = "255"
          /\ linked_ratio[c] \notin {"0", "-0", "inf"} =>
                get_ratio(linked_ratio, c) = linked_ratio[c]
    /\ (linkCall.name = "set_link_ratio" /\ linkCall.value \in {"0", "-0", "inf"})
          => linkResult = "Invalid Ratio"

\* C28: get_ratio reports a stored 0 as 1/255, a stored +infinity as 255 and
\* any other ratio as it is stored, so never 0 and never +infinity; and
\* set_link_ratio(0) and set_link_ratio(+infinity) return an error in a step
\* that changes neither the stored ratios nor the linked flags.
C28_RatioSentinels ==
    /\ []RatioSentinels
    /\ [][(linkCall'.name = "set_link_ratio" /\ linkResult' = "Invalid Ratio")
            => (linked_ratio' = linked_ratio /\ linked_list' = linked_list)]_vars

C28_Witness ==
    /\ linkCall = [name |-> "set_link_ratio", channel |-> "Mic", suffix |-> "", value |-> "inf"]
    /\ linkResult = "Invalid Ratio"
    /\ linked_ratio["Mic"] = "0"
    /\ linked_ratio["Chat"] = "inf"
    /\ ~linked_list["Mic"]

\* is_connected has run to its end on the usb handle: its request has
\* returned, or it returned false without one
ProbeReturned ==
    /\ impl = "usb"
    /\ stack = <<>>
    /\ \/ /\ lastRet.kind \in {"Ok", "Err"}
          /\ lastRet.role = "verb"
          /\ txlog # <<>>
          /\ txlog[1].role = "verb"
          /\ IsReset(txlog[1].cmd)
       \/ lastRet.cmd = "is_connected"

\* C29: is_connected hands the device exactly one frame, a ResetCommandIndex,
\* when the configuration can be read, and none when it cannot; after it has
\* run the command counter is 0.
C29_OneResetPerProbe ==
    ProbeReturned =>
        /\ lastRet.cmd = "is_connected" => txlog = <<>>
        /\ lastRet.cmd # "is_connected" => (Len(txlog) = 1 /\ IsReset(txlog[1].cmd))
        /\ command_count = 0

\* C29 (amended): with a readable configuration is_connected hands the device
\* ResetCommandIndex frames only: one, and after a response with a mismatched
\* index the resync's one and one retransmission; the command counter is 0
\* afterwards. With an unreadable configuration it hands the device nothing
\* (and leaves the counter as it is).
C29_ResetsOnlyThenZero ==
    ProbeReturned =>
        /\ lastRet.cmd = "is_connected" => txlog = <<>>
        /\ lastRet.cmd # "is_connected" =>
             /\ Len(txlog) \in 1..3
             /\ \A k \in 1..Len(txlog) : IsReset(txlog[k].cmd)
             /\ ~lastRet.mism => Len(txlog) = 1
             /\ command_count = 0

C29_Witness ==
    /\ ProbeReturned
    /\ lastRet.kind = "Ok"
    /\ lastRet.mism
    /\ Len(txlog) = 3
    /\ command_count = 0

\* C30: of a response of 24 bytes or more, with packed the first
\* little-endian u32, build the second, dice_build the fifth and p the sixth,
\* get_firmware_version returns firmware = (packed >> 12, (packed >> 8) & 0xF,
\* packed & 0xFF, build) and dice = ((p >> 20) & 0xF, (p >> 12) & 0xFF,
\* p & 0xFFF, dice_build); a response starting 34 12 00 00 07 00 00 00
\* decodes to firmware (0x1, 0x2, 0x34, 7).
C30_VersionsDecoded ==
    LET Small(n) == U32(n \div 65536, n % 65536)
    IN versions.result = "Ok" =>
        /\ \E fp \in WordValues, fb \in BuildValues, db \in BuildValues,
              dp \in WordValues :
             /\ SubSeq(response, 1, 8) = WireBytes(fp) \o WireBytes(fb)
             /\ SubSeq(response, 17, 24) = WireBytes(db) \o WireBytes(dp)
             /\ versions.firmware =
                  <<Small(fp.hi * 16 + fp.lo \div 4096),
                    Small((fp.lo \div 256) % 16),
                    Small(fp.lo % 256),
                    fb>>
             /\ versions.dice =
                  <<Small((dp.hi \div 16) % 16),
                    Small((dp.hi % 16) * 16 + dp.lo \div 4096),
                    Small(dp.lo % 4096),
                    db>>
        /\ SubSeq(response, 1, 8) = <<52, 18, 0, 0, 7, 0, 0, 0>>
             => versions.firmware = <<U32(0, 1), U32(0, 2), U32(0, 52), U32(0, 7)>>

C30_Witness ==
    /\ versions.result = "Ok"
    /\ SubSeq(response, 1, 8) = <<52, 18, 0, 0, 7, 0, 0, 0>>
    /\ versions.firmware = <<U32(0, 1), U32(0, 2), U32(0, 52), U32(0, 7)>>
    /\ SubSeq(response, 21, 24) = <<255, 255, 255, 255>>
    /\ versions.dice = <<U32(0, 15), U32(0, 255), U32(0, 4095), U32(0, 0)>>

\* The places that hold a device find_devices is to report
Matching ==
    {k \in 0..(MaxDevices - 1) :
        /\ ports[k].attached
        /\ ports[k].descriptor.readable
        /\ ports[k].descriptor.vendor_id = 4640
        /\ ports[k].descriptor.product_id \in {36832, 36836}}

\* C31: find_devices returns exactly one {bus, address} entry for every
\* attached device whose descriptor is readable and has VID 0x1220 and PID
\* 0x8FE0 or 0x8FE4, and nothing else, provided the devices can be listed;
\* unreadable descriptors are skipped; when the devices cannot be listed or
\* none matches, the result is the empty list.
C31_FoundAreTheMatching ==
    found.returned =>
        /\ devicesOk =>
             /\ \A k \in Matching :
                  Cardinality({i \in 1..Len(found.devices) :
                      found.devices[i] = [bus_number |-> BusOf(k), address |-> AddressOf(k)]}) = 1
             /\ Len(found.devices) = Cardinality(Matching)
        /\ (~devicesOk \/ Matching = {}) => found.devices = <<>>

C31_Witness ==
    /\ found.returned
    /\ devicesOk
    /\ Len(found.devices) = 1
    /\ \E k \in 0..(MaxDevices - 1) : ports[k].attached /\ ~ports[k].descriptor.readable
    /\ \E k \in 0..(MaxDevices - 1) :
         /\ ports[k].attached
         /\ ports[k].descriptor.readable
         /\ ports[k].descriptor.vendor_id = 4640
         /\ ports[k].descriptor.product_id = 36833

\* A non-reset verb has returned Ok without a resync
PlainRequestReturned ==
    /\ stack = <<>>
    /\ lastRet.kind = "Ok"
    /\ lastRet.role = "verb"
    /\ ~lastRet.mism
    /\ txlog # <<>>
    /\ ~IsReset(txlog[Len(txlog)].cmd)

\* C32: a non-reset request that succeeds without a resync, entered with the
\* counter c left by the request before it, transmits no ResetCommandIndex
\* unless c = u16::MAX, carries the index c + 1 in that case, and leaves the
\* counter at the index it carried; the framer's own reset is transmitted
\* only when the counter equals u16::MAX.
C32_NextIndexNoReset ==
    /\ PlainRequestReturned =>
         /\ command_count = lastRet.idx
         /\ txlog[1].entry # U16Max =>
              /\ Len(txlog) = 1
              /\ txlog[1].role = "verb"
              /\ txlog[1].idx = txlog[1].entry + 1
    /\ \A k \in 1..Len(txlog) :
         txlog[k].role = "wrap" => txlog[k].entry = U16Max

\* The same, of the GoXLRUSB framer alone
C32_UsbOnly == impl = "usb" => C32_NextIndexNoReset

\* The request under way has failed for good: its write failed, or a
\* response read failed with an error other than Pipe
FatalTransferError ==
    /\ stack # <<>>
    /\ lastRet.kind = "Err"
    /\ txlog # <<>>
    /\ lastRet.err = "NoDevice" \/ ~txlog[Len(txlog)].ok

\* C33: the invocation whose response read fails with an error other than
\* Pipe, or whose request write fails, returns that error at once; every
\* step of the call after it hands the same error one invocation up: nothing
\* more is transmitted, nothing more is read.
C33_FatalErrorEndsRequest ==
    [][/\ (lastRet' # lastRet /\ lastRet'.kind = "Err" /\ lastRet'.via = "self"
             /\ lastRet'.err = "NoDevice")
            => Len(stack') = Len(stack) - 1
       /\ (Len(txlog') > Len(txlog) /\ ~txlog'[Len(txlog')].ok)
            => (Len(stack') = Len(stack) - 1 /\ lastRet'.kind = "Err")
       /\ FatalTransferError
            => /\ txlog' = txlog
               /\ pipe' = pipe
               /\ Len(stack') < Len(stack)
               /\ lastRet'.kind = "Err"
               /\ lastRet'.err = lastRet.err]_vars

C33_Witness ==
    /\ stack = <<>>
    /\ lastRet.kind = "Err"
    /\ lastRet.err = "NoDevice"
    /\ lastRet.via = "resync"
    /\ Len(txlog) = 2
    /\ txlog[2].ok

\* C34: write_to on a ProfileSettings that a successful load produced
\* returns Ok or Err and never aborts.
C34_WriteNeverAborts ==
    (xmlOp = "write_to" /\ treeBefore.present) => xmlResult \in {"Ok", "Err"}

\* C36: when load_preset returns an error the profile is what it was before
\* the call.
C36_FailedImportChangesNothing ==
    (xmlOp = "load_preset" /\ xmlResult = "Err") => tree = treeBefore

\* The slot the element named by slotTag is documented to go to, or -1
DocumentedSlot ==
    LET n == U8FromStr(slotTag.last)
    IN IF slotTag.prefix \in {"mute", "scribble"}
       THEN (IF n \in 1..4 THEN n - 1 ELSE -1)
       ELSE IF slotTag.prefix = "FaderMeter"
       THEN (IF n \in 0..3 THEN n ELSE -1)
       ELSE (IF n \in 1..6 THEN n ELSE -1)

\* C35: mute<N> and scribble<N> store into fader slot N-1 for N in 1..4,
\* FaderMeter<N> into fader slot N for N in 0..3, <encoder>preset<N> into
\* preset N for N in 1..6; for any other last character the load ends with
\* an error or skips the tag: it never aborts and stores into no slot.
C35_SlotByDigit ==
    slotOutcome # NoOutcome =>
        IF DocumentedSlot # -1
        THEN slotOutcome.result = "Stored" /\ slotOutcome.slot = DocumentedSlot
        ELSE slotOutcome.result \in {"Err", "Skipped"}

\* The same, of the documented digits alone
C35_DocumentedDigitsStored ==
    (slotOutcome # NoOutcome /\ DocumentedSlot # -1) =>
        (slotOutcome.result = "Stored" /\ slotOutcome.slot = DocumentedSlot)

\* C37: a decoding verb returns Ok or Err for every body, the empty one
\* included, and never aborts.
C37_VerbsNeverAbort ==
    facadeResult # NoDecode => facadeResult.result \in {"Ok", "Err"}

\* The same, of get_firmware_version alone
C37_FirmwareVersionNeverAborts ==
    (facadeResult # NoDecode /\ facadeCall.verb = "get_firmware_version")
        => facadeResult.result \in {"Ok", "Err"}

\* C38: after a per-device setter, every per-device getter other than the
\* one of the field it names returns for the same serial what it returned
\* before the call (the two profile names: where an entry existed), also
\* when the setter has created the device's first entry.
C38_OtherGettersUnchanged ==
    settingsCall # NoSettingsCall =>
        \A g \in Getters \ {settingsCall.field} :
            (g \in {"profile", "mic_profile"}
                /\ ~devicesBefore[settingsCall.serial].present)
            \/ Get(g, devices, settingsCall.serial)
                 = Get(g, devicesBefore, settingsCall.serial)

\* The same, of a serial that had its entry before the call
C38_ExistingEntryOnly ==
    (settingsCall # NoSettingsCall /\ devicesBefore[settingsCall.serial].present) =>
        \A g \in Getters \ {settingsCall.field} :
            Get(g, devices, settingsCall.serial)
              = Get(g, devicesBefore, settingsCall.serial)

\* C39: for every ms in 0..=20000, set_decay_millis(ms) succeeds and stores
\* a decay in 0..=290, and get_decay_millis then returns r with r <= ms and
\* ms - r < 10 when ms <= 1000, ms - r < 100 otherwise, computed without u16
\* overflow; and for every decay d in 0..=290,
\* set_decay_millis(get_decay_millis()) leaves the decay equal to d.
C39_DecayMillisRoundTrip ==
    /\ setterCall.name = "set_decay_millis" =>
         LET ms == setterCall.value
             r == get_decay_millis(preset)
         IN /\ setterResult = "Ok"
            /\ preset.decay \in 0..290
            /\ ~r.overflow
            /\ r.value <= ms
            /\ ms - r.value < (IF ms <= 1000 THEN 10 ELSE 100)
    /\ setterCall.name = "round_trip" =>
         /\ setterResult = "Ok"
         /\ presetBefore.decay \in 0..290
         /\ preset.decay = presetBefore.decay

C39_Witness ==
    /\ setterCall.name = "round_trip"
    /\ presetBefore.decay = 290
    /\ preset.decay = 290
    /\ setterCall.value = 20000

=============================================================================
